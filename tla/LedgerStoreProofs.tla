------------------------- MODULE LedgerStoreProofs -------------------------
(* Proofs about the ledger's storage: that inc_idstore_seed never hands   *)
(* out a seed twice, in the working tree or in the committed one; that    *)
(* every tree is well formed; that the supply covers the sum of the       *)
(* balances, the anonymous address included; and that it stays within    *)
(* the maximum when the initial balances do.                              *)
EXTENDS LedgerStore, SumFunctionFacts, FiniteSetTheorems, TLAPS

USE LedgerAssumption

-----------------------------------------------------------------------------
(* IdstoreSeedsUnique is not inductive alone: a seed handed out is new   *)
(* only because every seed handed out so far is below the stored seed,   *)
(* which only grows.  Mint, burn and store write other keys of the tree, *)
(* so the strengthening needs no more of a tree than its idstore fields. *)
SeedsOf(s) ==
    /\ {"seed", "handed", "issued"} \subseteq DOMAIN s
    /\ s.seed \in Nat /\ s.issued \in Nat /\ s.handed \subseteq Nat
    /\ IsFiniteSet(s.handed)
    /\ Cardinality(s.handed) = s.issued
    /\ \A x \in s.handed : x < s.seed

SeedInv == SeedsOf(work) /\ SeedsOf(disk)

(* A write that leaves the idstore fields alone keeps a tree's seeds.     *)
LEMMA SeedsKept ==
    ASSUME NEW s, SeedsOf(s), NEW t, DOMAIN t = DOMAIN s,
           t.seed = s.seed, t.handed = s.handed, t.issued = s.issued
    PROVE  SeedsOf(t)
BY DEF SeedsOf

(* maybe_commit stages the tree, and outside blockchain mode commits it.  *)
LEMMA MaybeCommitSeeds ==
    ASSUME NEW w, SeedsOf(w), SeedsOf(disk), MaybeCommit(w)
    PROVE  SeedsOf(work') /\ SeedsOf(disk')
BY DEF MaybeCommit

(* inc_idstore_seed hands out the stored seed, which is above every seed *)
(* handed out before: the set grows by one, as the count does.            *)
LEMMA IncSeeds ==
    ASSUME NEW s, SeedsOf(s)
    PROVE  SeedsOf([s EXCEPT !.seed = @ + 1, !.handed = @ \cup {s.seed},
                             !.issued = @ + 1])
<1> DEFINE t == [s EXCEPT !.seed = @ + 1, !.handed = @ \cup {s.seed},
                          !.issued = @ + 1]
<1>1. /\ DOMAIN t = DOMAIN s
      /\ t.seed = s.seed + 1 /\ t.handed = s.handed \cup {s.seed}
      /\ t.issued = s.issued + 1
  BY DEF SeedsOf
<1>2. s.seed \notin s.handed
  BY DEF SeedsOf
<1>3. IsFiniteSet(s.handed \cup {s.seed})
      /\ Cardinality(s.handed \cup {s.seed}) = Cardinality(s.handed) + 1
  BY <1>2, FS_AddElement DEF SeedsOf
<1>4. \A x \in s.handed \cup {s.seed} : x < s.seed + 1
  BY DEF SeedsOf
<1> QED
  BY <1>1, <1>3, <1>4 DEF SeedsOf

LEMMA SeedInit == Init => SeedInv
<1> SUFFICES ASSUME Init PROVE SeedInv
  OBVIOUS
<1>1. SeedsOf(WithIdstore(WithBalances))
  BY FS_EmptySet DEF WithIdstore, WithBalances, SeedsOf
<1> QED
  BY <1>1 DEF Init, SeedInv

(* Mint, burn and store stage (and maybe commit) a tree that differs    *)
(* from the working one in keys other than the idstore's.                 *)
KeepsSeeds(w) ==
    /\ DOMAIN w = DOMAIN work
    /\ w.seed = work.seed /\ w.handed = work.handed /\ w.issued = work.issued

(* The staged tree is the working tree of the next state; the committed *)
(* one is either unchanged or that tree.                                  *)
LEMMA MaybeCommitShape ==
    ASSUME NEW w, MaybeCommit(w)
    PROVE  work' = w /\ (disk' = disk \/ disk' = work')
BY DEF MaybeCommit

LEMMA StoreKeeps ==
    ASSUME NEW p, NEW a, NEW c, StoreCredential(p, a, c)
    PROVE  KeepsSeeds(work') /\ (disk' = disk \/ disk' = work')
<1>1. MaybeCommit([work EXCEPT !.phrase[p] = c, !.byAddr[a] = c])
  BY DEF StoreCredential
<1>2. work' = [work EXCEPT !.phrase[p] = c, !.byAddr[a] = c]
      /\ (disk' = disk \/ disk' = work')
  BY <1>1, MaybeCommitShape
<1> QED
  BY <1>2 DEF KeepsSeeds

LEMMA MintKeeps ==
    ASSUME NEW sender, NEW sym, NEW dist, Mint(sender, sym, dist)
    PROVE  KeepsSeeds(work') /\ (disk' = disk \/ disk' = work')
<1>1. disk' = disk \/ disk' = work'
  BY DEF Mint, MintToken, MaybeCommit
<1>2. KeepsSeeds(work')
  BY DEF Mint, MintToken, MaybeCommit, KeepsSeeds
<1> QED
  BY <1>1, <1>2

LEMMA BurnKeeps ==
    ASSUME NEW sender, NEW sym, NEW dist, NEW u, Burn(sender, sym, dist, u)
    PROVE  KeepsSeeds(work') /\ (disk' = disk \/ disk' = work')
<1>1. disk' = disk \/ disk' = work'
  BY DEF Burn, BurnToken, MaybeCommit
<1>2. KeepsSeeds(work')
  BY DEF Burn, BurnToken, MaybeCommit, KeepsSeeds
<1> QED
  BY <1>1, <1>2

LEMMA SeedStep == SeedInv /\ [Next]_vars => SeedInv'
<1> SUFFICES ASSUME SeedInv, [Next]_vars PROVE SeedsOf(work') /\ SeedsOf(disk')
  BY DEF SeedInv
<1>0. SeedsOf(work) /\ SeedsOf(disk)
  BY DEF SeedInv
<1>1. ASSUME KeepsSeeds(work'), disk' = disk \/ disk' = work'
      PROVE  SeedsOf(work') /\ SeedsOf(disk')
  <2>1. SeedsOf(work')
    BY <1>0, <1>1, SeedsKept DEF KeepsSeeds
  <2> QED
    BY <1>0, <1>1, <2>1
<1>2. CASE IncIdstoreSeed
  <2>1. SeedsOf([work EXCEPT !.seed = @ + 1, !.handed = @ \cup {work.seed},
                             !.issued = @ + 1])
    BY <1>0, IncSeeds
  <2>2. MaybeCommit([work EXCEPT !.seed = @ + 1, !.handed = @ \cup {work.seed},
                                 !.issued = @ + 1])
    BY <1>2 DEF IncIdstoreSeed
  <2> QED
    BY <1>0, <2>1, <2>2, MaybeCommitSeeds
<1>3. CASE Commit
  <2>1. work' = [work EXCEPT !.height = @ + 1] /\ disk' = work'
    BY <1>3 DEF Commit
  <2>2. KeepsSeeds(work')
    BY <2>1 DEF KeepsSeeds
  <2> QED
    BY <1>1, <2>1, <2>2
<1>4. CASE Restart
  BY <1>0, <1>4 DEF Restart
<1>5. CASE UNCHANGED vars
  BY <1>0, <1>5 DEF vars
<1> QED
  BY <1>1, <1>2, <1>3, <1>4, <1>5, MintKeeps, BurnKeeps, StoreKeeps DEF Next

(* inc_idstore_seed never hands out a seed twice: the seeds each tree     *)
(* records are as many as the calls that handed them out, staged or       *)
(* committed, across commits and crashes.  It holds for every initial   *)
(* seed with_idstore is given.                                             *)
THEOREM SeedsUnique == Spec => []IdstoreSeedsUnique
<1>1. SeedInv => IdstoreSeedsUnique
  BY DEF SeedInv, SeedsOf, IdstoreSeedsUnique
<1> QED
  BY SeedInit, SeedStep, <1>1, PTL DEF Spec

-----------------------------------------------------------------------------
(* The supply.  mint_token and burn_token write the balances of the       *)
(* distribution and the token info in one batch; the sums they keep equal *)
(* are the folds of SumFunctionFacts.                                      *)

(* The balances of one symbol, by address.                                 *)
BalOf(s, sym) == [a \in Addrs |-> s.bal[a][sym]]

(* The tree mint_token stages, and the one burn_token stages.             *)
MintedTree(s, sym, dist) ==
    [s EXCEPT
        !.bal = [a \in Addrs |->
                   IF a \in DOMAIN dist
                   THEN [s.bal[a] EXCEPT ![sym] = ReadBalance(s, a, sym) + dist[a]]
                   ELSE s.bal[a]],
        !.circ[sym] = @ + Amount(dist),
        !.total[sym] = @ + Amount(dist)]

BurntTree(s, sym, dist) ==
    [s EXCEPT
        !.bal = [a \in Addrs |->
                   IF a \in DOMAIN dist
                   THEN [s.bal[a] EXCEPT ![sym] = ReadBalance(s, a, sym) - dist[a]]
                   ELSE s.bal[a]],
        !.circ[sym] = @ - Amount(dist),
        !.total[sym] = @ - Amount(dist)]

(* A distribution's amount is a natural, the sum over its addresses.      *)
LEMMA AmountNat ==
    ASSUME NEW dist \in Distributions
    PROVE  /\ DOMAIN dist \subseteq Addrs /\ IsFiniteSet(DOMAIN dist)
           /\ \A a \in DOMAIN dist : dist[a] \in Nat
           /\ Amount(dist) = SumOn(dist, DOMAIN dist)
           /\ Amount(dist) \in Nat
<1>1. PICK D \in SUBSET Addrs : dist \in [D -> 0..MaxAmount]
  BY DEF Distributions
<1>2. DOMAIN dist = D /\ IsFiniteSet(D) /\ \A a \in D : dist[a] \in Nat
  BY <1>1, FS_Subset
<1>3. Amount(dist) = SumOn(dist, DOMAIN dist)
  BY DEF Amount, SumFunction, SumOn
<1> QED
  BY <1>2, <1>3, SumType

(* The balances mint_token stages, address by address.                    *)
LEMMA MintedBal ==
    ASSUME NEW s \in Store, NEW sym \in Symbols, NEW dist \in Distributions,
           NEW a \in Addrs, NEW y \in Symbols
    PROVE  MintedTree(s, sym, dist).bal[a][y] =
             IF a \in DOMAIN dist /\ y = sym
             THEN ReadBalance(s, a, sym) + dist[a] ELSE s.bal[a][y]
<1>1. s.bal[a] \in [Symbols -> Nat]
  BY DEF Store
<1> QED
  BY <1>1 DEF MintedTree, Store

LEMMA BurntBal ==
    ASSUME NEW s \in Store, NEW sym \in Symbols, NEW dist \in Distributions,
           NEW a \in Addrs, NEW y \in Symbols
    PROVE  BurntTree(s, sym, dist).bal[a][y] =
             IF a \in DOMAIN dist /\ y = sym
             THEN ReadBalance(s, a, sym) - dist[a] ELSE s.bal[a][y]
<1>1. s.bal[a] \in [Symbols -> Nat]
  BY DEF Store
<1> QED
  BY <1>1 DEF BurntTree, Store

(* A tree whose supply covers its balances: the total equals the          *)
(* circulating supply, which is at least the sum of the balances.          *)
Covered(s) ==
    /\ s.total = s.circ
    /\ \A y \in Symbols : SumOn(BalOf(s, y), Addrs) <= s.circ[y]

(* The amounts of a distribution, zero outside it.                         *)
Ext(dist) == [a \in Addrs |-> IF a \in DOMAIN dist THEN dist[a] ELSE 0]

LEMMA ExtSum ==
    ASSUME NEW dist \in Distributions
    PROVE  /\ SumOn(Ext(dist), Addrs) = Amount(dist)
           /\ \A a \in Addrs : Ext(dist)[a] \in Nat
<1>1. /\ DOMAIN dist \subseteq Addrs /\ \A a \in DOMAIN dist : dist[a] \in Nat
      /\ Amount(dist) = SumOn(dist, DOMAIN dist)
  BY AmountNat
<1>2. SumOn(Ext(dist), Addrs) = SumOn(dist, DOMAIN dist)
  BY <1>1, SumZeroOutside DEF Ext
<1> QED
  BY <1>1, <1>2 DEF Ext

(* A balance read is at most the stored one (none, for the anonymous      *)
(* address, reads as zero).                                                *)
LEMMA ReadBelow ==
    ASSUME NEW s \in Store, NEW a \in Addrs, NEW y \in Symbols
    PROVE  /\ ReadBalance(s, a, y) \in Nat
           /\ ReadBalance(s, a, y) <= s.bal[a][y]
           /\ a # Anonymous => ReadBalance(s, a, y) = s.bal[a][y]
BY DEF ReadBalance, Store

(* mint_token raises the sum of the symbol's balances by at most the      *)
(* amount it adds to the supply (less when it overwrites a balance of the *)
(* anonymous address, which it reads as zero).                             *)
LEMMA MintedSum ==
    ASSUME NEW s \in Store, NEW sym \in Symbols, NEW dist \in Distributions
    PROVE  LET w == MintedTree(s, sym, dist) IN
           /\ SumOn(BalOf(w, sym), Addrs) <= SumOn(BalOf(s, sym), Addrs) + Amount(dist)
           /\ \A y \in Symbols \ {sym} :
                SumOn(BalOf(w, y), Addrs) = SumOn(BalOf(s, y), Addrs)
           /\ \A a \in Addrs, y \in Symbols : w.bal[a][y] \in Nat
<1> DEFINE w == MintedTree(s, sym, dist)
<1> DEFINE old == BalOf(s, sym)
<1> DEFINE new == BalOf(w, sym)
<1>0. IsFiniteSet(Addrs)
  BY LedgerAssumption
<1>1. ASSUME NEW a \in Addrs
      PROVE  /\ old[a] \in Nat /\ new[a] \in Nat /\ Ext(dist)[a] \in Nat
             /\ new[a] <= old[a] + Ext(dist)[a]
  <2>1. new[a] = IF a \in DOMAIN dist THEN ReadBalance(s, a, sym) + dist[a]
                 ELSE s.bal[a][sym]
    BY MintedBal DEF BalOf
  <2>2. old[a] = s.bal[a][sym] /\ s.bal[a][sym] \in Nat
    BY DEF BalOf, Store
  <2>3. Ext(dist)[a] = IF a \in DOMAIN dist THEN dist[a] ELSE 0
    BY DEF Ext
  <2>4. \A b \in DOMAIN dist : dist[b] \in Nat
    BY AmountNat
  <2> QED
    BY <2>1, <2>2, <2>3, <2>4, ReadBelow
<1>2. SumOn(new, Addrs) <= SumOn(old, Addrs) + SumOn(Ext(dist), Addrs)
  BY <1>0, <1>1, SumShift
<1>3. ASSUME NEW y \in Symbols \ {sym}
      PROVE  SumOn(BalOf(w, y), Addrs) = SumOn(BalOf(s, y), Addrs)
  <2>1. \A a \in Addrs : BalOf(w, y)[a] = BalOf(s, y)[a]
    BY MintedBal DEF BalOf
  <2> QED
    BY <1>0, <2>1, SumCongruent
<1>4. \A a \in Addrs, y \in Symbols : w.bal[a][y] \in Nat
  <2> SUFFICES ASSUME NEW a \in Addrs, NEW y \in Symbols PROVE w.bal[a][y] \in Nat
    OBVIOUS
  <2>1. \A b \in DOMAIN dist : dist[b] \in Nat
    BY AmountNat
  <2>2. w.bal[a][y] = IF a \in DOMAIN dist /\ y = sym
                      THEN ReadBalance(s, a, sym) + dist[a] ELSE s.bal[a][y]
    BY MintedBal
  <2>3. ReadBalance(s, a, sym) \in Nat /\ s.bal[a][y] \in Nat
    BY ReadBelow DEF Store
  <2> QED
    BY <2>1, <2>2, <2>3
<1> QED
  BY <1>1, <1>2, <1>3, <1>4, ExtSum

(* burn_token lowers the sum of the symbol's balances by exactly the      *)
(* amount it takes off the supply: every amount is at most the balance    *)
(* read, so none is taken from the anonymous address, which reads as 0.   *)
LEMMA BurntSum ==
    ASSUME NEW s \in Store, NEW sym \in Symbols, NEW dist \in Distributions,
           \A a \in DOMAIN dist : dist[a] # 0 /\ dist[a] <= ReadBalance(s, a, sym)
    PROVE  LET w == BurntTree(s, sym, dist) IN
           /\ SumOn(BalOf(s, sym), Addrs) = SumOn(BalOf(w, sym), Addrs) + Amount(dist)
           /\ \A y \in Symbols \ {sym} :
                SumOn(BalOf(w, y), Addrs) = SumOn(BalOf(s, y), Addrs)
           /\ \A a \in Addrs, y \in Symbols : w.bal[a][y] \in Nat
<1> DEFINE w == BurntTree(s, sym, dist)
<1> DEFINE old == BalOf(s, sym)
<1> DEFINE new == BalOf(w, sym)
<1>0. IsFiniteSet(Addrs) /\ \A b \in DOMAIN dist : dist[b] \in Nat
  BY LedgerAssumption, AmountNat
<1>1. ASSUME NEW a \in Addrs
      PROVE  /\ old[a] \in Nat /\ new[a] \in Nat /\ Ext(dist)[a] \in Nat
             /\ old[a] = new[a] + Ext(dist)[a]
  <2>1. new[a] = IF a \in DOMAIN dist THEN ReadBalance(s, a, sym) - dist[a]
                 ELSE s.bal[a][sym]
    BY BurntBal DEF BalOf
  <2>2. old[a] = s.bal[a][sym] /\ s.bal[a][sym] \in Nat
    BY DEF BalOf, Store
  <2>3. Ext(dist)[a] = IF a \in DOMAIN dist THEN dist[a] ELSE 0
    BY DEF Ext
  <2>4. a \in DOMAIN dist => ReadBalance(s, a, sym) = s.bal[a][sym]
    <3>1. a \in DOMAIN dist => a # Anonymous
      BY <1>0 DEF ReadBalance
    <3> QED
      BY <3>1, ReadBelow
  <2> QED
    BY <1>0, <2>1, <2>2, <2>3, <2>4, ReadBelow
<1>2. SumOn(old, Addrs) = SumOn(new, Addrs) + SumOn(Ext(dist), Addrs)
  BY <1>0, <1>1, SumShift
<1>3. ASSUME NEW y \in Symbols \ {sym}
      PROVE  SumOn(BalOf(w, y), Addrs) = SumOn(BalOf(s, y), Addrs)
  <2>1. \A a \in Addrs : BalOf(w, y)[a] = BalOf(s, y)[a]
    BY BurntBal DEF BalOf
  <2> QED
    BY <1>0, <2>1, SumCongruent
<1>4. \A a \in Addrs, y \in Symbols : w.bal[a][y] \in Nat
  <2> SUFFICES ASSUME NEW a \in Addrs, NEW y \in Symbols PROVE w.bal[a][y] \in Nat
    OBVIOUS
  <2>1. y = sym => w.bal[a][y] = new[a]
    BY DEF BalOf
  <2>2. w.bal[a][y] = IF a \in DOMAIN dist /\ y = sym
                      THEN ReadBalance(s, a, sym) - dist[a] ELSE s.bal[a][y]
    BY BurntBal
  <2>3. s.bal[a][y] \in Nat
    BY DEF Store
  <2> QED
    BY <1>1, <2>1, <2>2, <2>3
<1> QED
  BY <1>2, <1>3, <1>4, ExtSum

(* A tree whose balances and supplies are replaced by typed ones is a    *)
(* store.                                                                  *)
LEMMA ExceptStore ==
    ASSUME NEW s \in Store, NEW B \in [Addrs -> [Symbols -> Nat]],
           NEW C \in [Symbols -> Nat], NEW T \in [Symbols -> Nat]
    PROVE  [s EXCEPT !.bal = B, !.circ = C, !.total = T] \in Store
BY DEF Store

(* A store whose seed is replaced by a natural number is a store.        *)
LEMMA SeedStore ==
    ASSUME NEW s \in Store, NEW v \in Nat
    PROVE  [s EXCEPT !.seed = v] \in Store
BY DEF Store

(* The tree mint_token stages is a store whose supply covers its balances *)
(* when the old tree's did.                                               *)
LEMMA MintedCovered ==
    ASSUME NEW s \in Store, Covered(s), NEW sym \in Symbols,
           NEW dist \in Distributions
    PROVE  LET w == MintedTree(s, sym, dist) IN
           /\ w \in Store /\ Covered(w)
           /\ w.circ = [s.circ EXCEPT ![sym] = @ + Amount(dist)]
           /\ w.seed = s.seed /\ w.handed = s.handed /\ w.issued = s.issued
           /\ w.phrase = s.phrase /\ w.height = s.height
<1> DEFINE w == MintedTree(s, sym, dist)
<1>0. Amount(dist) \in Nat
  BY AmountNat
<1>5. /\ SumOn(BalOf(w, sym), Addrs) <= SumOn(BalOf(s, sym), Addrs) + Amount(dist)
      /\ \A y \in Symbols \ {sym} :
            SumOn(BalOf(w, y), Addrs) = SumOn(BalOf(s, y), Addrs)
      /\ \A a \in Addrs, y \in Symbols : w.bal[a][y] \in Nat
  BY MintedSum
<1>1. /\ w.circ = [s.circ EXCEPT ![sym] = @ + Amount(dist)]
      /\ w.total = [s.total EXCEPT ![sym] = @ + Amount(dist)]
      /\ w.seed = s.seed /\ w.handed = s.handed /\ w.issued = s.issued
      /\ w.phrase = s.phrase /\ w.height = s.height /\ w.byAddr = s.byAddr
      /\ DOMAIN w = DOMAIN s
  BY DEF MintedTree, Store
<1>2. w.bal \in [Addrs -> [Symbols -> Nat]]
  <2>1. ASSUME NEW a \in Addrs PROVE w.bal[a] \in [Symbols -> Nat]
    <3>1. w.bal[a] = IF a \in DOMAIN dist
                     THEN [s.bal[a] EXCEPT ![sym] = ReadBalance(s, a, sym) + dist[a]]
                     ELSE s.bal[a]
      BY DEF MintedTree
    <3>2. s.bal[a] \in [Symbols -> Nat]
      BY DEF Store
    <3>3. a \in DOMAIN dist => ReadBalance(s, a, sym) + dist[a] \in Nat
      BY AmountNat, ReadBelow
    <3> QED
      BY <3>1, <3>2, <3>3
  <2>2. DOMAIN w.bal = Addrs
    BY DEF MintedTree, Store
  <2> QED
    BY <2>1, <2>2 DEF MintedTree
<1>3. w \in Store
  <2>1. w.circ \in [Symbols -> Nat] /\ w.total \in [Symbols -> Nat]
    BY <1>0, <1>1 DEF Store
  <2>2. w = [s EXCEPT !.bal = w.bal, !.circ = w.circ, !.total = w.total]
    BY <1>1 DEF MintedTree
  <2>3. [s EXCEPT !.bal = w.bal, !.circ = w.circ, !.total = w.total] \in Store
    BY <1>2, <2>1, ExceptStore
  <2> QED
    BY <2>2, <2>3
<1>4. Covered(w)
  <2>1. ASSUME NEW y \in Symbols PROVE SumOn(BalOf(w, y), Addrs) <= w.circ[y]
    <3>1. SumOn(BalOf(s, y), Addrs) <= s.circ[y] /\ s.circ[y] \in Nat
      BY DEF Covered, Store
    <3>2. SumOn(BalOf(s, y), Addrs) \in Int
      BY LedgerAssumption, SumType DEF BalOf, Store
    <3>5. w.circ[y] = IF y = sym THEN s.circ[sym] + Amount(dist) ELSE s.circ[y]
      BY <1>1 DEF Store
    <3>6. SumOn(BalOf(w, y), Addrs) \in Int
      <4>1. \A a \in Addrs : BalOf(w, y)[a] \in Nat
        BY <1>5 DEF BalOf
      <4> QED
        BY <4>1, LedgerAssumption, SumType
    <3>3. CASE y = sym
      BY <1>0, <1>5, <3>1, <3>2, <3>3, <3>5, <3>6
    <3>4. CASE y # sym
      <4>1. SumOn(BalOf(w, y), Addrs) = SumOn(BalOf(s, y), Addrs)
        BY <1>5, <3>4
      <4> QED
        BY <3>1, <3>4, <3>5, <4>1
    <3> QED
      BY <3>3, <3>4
  <2> QED
    BY <1>1, <2>1 DEF Covered
<1> QED
  BY <1>1, <1>3, <1>4

(* The tree burn_token stages is a store whose supply covers its balances *)
(* when the old tree's did: the amount burnt is at most the balances,     *)
(* hence at most the circulating supply.                                  *)
LEMMA BurntCovered ==
    ASSUME NEW s \in Store, Covered(s), NEW sym \in Symbols,
           NEW dist \in Distributions,
           \A a \in DOMAIN dist : dist[a] # 0 /\ dist[a] <= ReadBalance(s, a, sym)
    PROVE  LET w == BurntTree(s, sym, dist) IN
           /\ w \in Store /\ Covered(w)
           /\ w.circ = [s.circ EXCEPT ![sym] = @ - Amount(dist)]
           /\ SumOn(BalOf(w, sym), Addrs) = SumOn(BalOf(s, sym), Addrs) - Amount(dist)
           /\ w.seed = s.seed /\ w.handed = s.handed /\ w.issued = s.issued
           /\ w.phrase = s.phrase /\ w.height = s.height
<1> DEFINE w == BurntTree(s, sym, dist)
<1>0. Amount(dist) \in Nat
  BY AmountNat
<1>5. /\ SumOn(BalOf(s, sym), Addrs) = SumOn(BalOf(w, sym), Addrs) + Amount(dist)
      /\ \A y \in Symbols \ {sym} :
            SumOn(BalOf(w, y), Addrs) = SumOn(BalOf(s, y), Addrs)
      /\ \A a \in Addrs, y \in Symbols : w.bal[a][y] \in Nat
  BY BurntSum
<1>6. \A y \in Symbols : /\ SumOn(BalOf(w, y), Addrs) \in Nat
                         /\ SumOn(BalOf(s, y), Addrs) \in Nat
  <2> SUFFICES ASSUME NEW y \in Symbols
               PROVE  /\ SumOn(BalOf(w, y), Addrs) \in Nat
                      /\ SumOn(BalOf(s, y), Addrs) \in Nat
    OBVIOUS
  <2>1. \A a \in Addrs : BalOf(w, y)[a] \in Nat /\ BalOf(s, y)[a] \in Nat
    BY <1>5 DEF BalOf, Store
  <2> QED
    BY <2>1, LedgerAssumption, SumType
<1>7. Amount(dist) <= s.circ[sym] /\ s.circ \in [Symbols -> Nat]
  BY <1>0, <1>5, <1>6 DEF Covered, Store
<1>1. /\ w.circ = [s.circ EXCEPT ![sym] = @ - Amount(dist)]
      /\ w.total = [s.total EXCEPT ![sym] = @ - Amount(dist)]
      /\ w.seed = s.seed /\ w.handed = s.handed /\ w.issued = s.issued
      /\ w.phrase = s.phrase /\ w.height = s.height
  BY DEF BurntTree, Store
<1>2. w.bal \in [Addrs -> [Symbols -> Nat]]
  <2>1. ASSUME NEW a \in Addrs PROVE w.bal[a] \in [Symbols -> Nat]
    <3>1. w.bal[a] = IF a \in DOMAIN dist
                     THEN [s.bal[a] EXCEPT ![sym] = ReadBalance(s, a, sym) - dist[a]]
                     ELSE s.bal[a]
      BY DEF BurntTree
    <3>2. s.bal[a] \in [Symbols -> Nat]
      BY DEF Store
    <3>3. a \in DOMAIN dist => ReadBalance(s, a, sym) - dist[a] \in Nat
      BY AmountNat, ReadBelow
    <3> QED
      BY <3>1, <3>2, <3>3
  <2>2. DOMAIN w.bal = Addrs
    BY DEF BurntTree, Store
  <2> QED
    BY <2>1, <2>2 DEF BurntTree
<1>3. w \in Store
  <2>1. w.circ \in [Symbols -> Nat] /\ w.total \in [Symbols -> Nat]
    BY <1>0, <1>1, <1>7 DEF Covered, Store
  <2>2. w = [s EXCEPT !.bal = w.bal, !.circ = w.circ, !.total = w.total]
    BY <1>1 DEF BurntTree
  <2>3. [s EXCEPT !.bal = w.bal, !.circ = w.circ, !.total = w.total] \in Store
    BY <1>2, <2>1, ExceptStore
  <2> QED
    BY <2>2, <2>3
<1>4. Covered(w)
  <2>1. ASSUME NEW y \in Symbols PROVE SumOn(BalOf(w, y), Addrs) <= w.circ[y]
    <3>1. SumOn(BalOf(s, y), Addrs) <= s.circ[y] /\ s.circ[y] \in Nat
      BY DEF Covered, Store
    <3>5. w.circ[y] = IF y = sym THEN s.circ[sym] - Amount(dist) ELSE s.circ[y]
      BY <1>1 DEF Store
    <3>3. CASE y = sym
      BY <1>0, <1>5, <1>6, <3>1, <3>3, <3>5
    <3>4. CASE y # sym
      <4>1. SumOn(BalOf(w, y), Addrs) = SumOn(BalOf(s, y), Addrs)
        BY <1>5, <3>4
      <4> QED
        BY <3>1, <3>4, <3>5, <4>1
    <3> QED
      BY <3>3, <3>4
  <2> QED
    BY <1>1, <2>1 DEF Covered
<1> QED
  BY <1>0, <1>1, <1>3, <1>4, <1>5, <1>6

(* TypeOK is not inductive alone: burn_token subtracts the amount from    *)
(* the supply, which stays a natural only because the supply covers the   *)
(* balances the amount is drawn from.                                      *)
SupplyInv == TypeOK /\ Covered(work) /\ Covered(disk)

(* A write that leaves the balances and supplies alone keeps the cover.   *)
LEMMA CoveredKept ==
    ASSUME NEW s, Covered(s), NEW t, t.bal = s.bal, t.circ = s.circ,
           t.total = s.total
    PROVE  Covered(t)
BY DEF Covered, BalOf

(* mint and burn, unfolded: the staged tree and the guards they check.    *)
LEMMA MintIs ==
    ASSUME NEW sender, NEW sym, NEW dist, Mint(sender, sym, dist)
    PROVE  /\ sym \in Symbols /\ nOps' = nOps + 1 /\ nOps < MaxOps
           /\ MaybeCommit(MintedTree(work, sym, dist))
           /\ Maximum[sym] # Absent =>
                work.circ[sym] + Amount(dist) <= Maximum[sym]
BY DEF Mint, MintToken, MintedTree, TokenSupply, CheckSymbolExists

LEMMA BurnIs ==
    ASSUME NEW sender, NEW sym, NEW dist, NEW u, Burn(sender, sym, dist, u)
    PROVE  /\ sym \in Symbols /\ nOps' = nOps + 1 /\ nOps < MaxOps
           /\ MaybeCommit(BurntTree(work, sym, dist))
           /\ \A a \in DOMAIN dist :
                dist[a] # 0 /\ dist[a] <= ReadBalance(work, a, sym)
BY DEF Burn, BurnToken, BurntTree, CheckSymbolExists

(* The supply with_balances sets up: the sum of the initial balances.     *)
InitialSupply ==
    [sym \in Symbols |-> SumFunction([a \in Addrs |-> InitialBalance[a][sym]])]

(* The tree with_balances and with_idstore set up holds the initial      *)
(* balances, and the supply of every symbol is their sum.                 *)
LEMMA InitialTree ==
    LET s0 == WithIdstore(WithBalances) IN
    /\ s0.bal = InitialBalance
    /\ s0.circ = InitialSupply
    /\ s0.total = InitialSupply
    /\ \A y \in Symbols : /\ InitialSupply[y] = SumOn(BalOf(s0, y), Addrs)
                          /\ InitialSupply[y] \in Nat
<1> DEFINE s0 == WithIdstore(WithBalances)
<1>0. /\ s0.bal = InitialBalance
      /\ s0.circ = InitialSupply
      /\ s0.total = InitialSupply
  BY DEF WithIdstore, WithBalances, InitialSupply
<1>1. ASSUME NEW y \in Symbols
      PROVE  /\ InitialSupply[y] = SumOn(BalOf(s0, y), Addrs)
             /\ InitialSupply[y] \in Nat
  <2>1. BalOf(s0, y) = [a \in Addrs |-> InitialBalance[a][y]]
    BY <1>0 DEF BalOf
  <2>2. InitialSupply[y] = SumOn([a \in Addrs |-> InitialBalance[a][y]], Addrs)
    BY DEF InitialSupply, SumFunction, SumOn
  <2>3. SumOn([a \in Addrs |-> InitialBalance[a][y]], Addrs) \in Nat
    BY LedgerAssumption, SumType
  <2> QED
    BY <2>1, <2>2, <2>3
<1> QED
  BY <1>0, <1>1

LEMMA SupplyInit == Init => SupplyInv
<1> SUFFICES ASSUME Init PROVE SupplyInv
  OBVIOUS
<1> DEFINE s0 == WithIdstore(WithBalances)
<1>0. /\ s0.bal = InitialBalance
      /\ s0.circ = InitialSupply
      /\ s0.total = InitialSupply
  BY InitialTree
<1>1. \A y \in Symbols : /\ InitialSupply[y] = SumOn(BalOf(s0, y), Addrs)
                         /\ InitialSupply[y] \in Nat
  BY InitialTree
<1>2. s0 \in Store
  <2>1. InitialSupply \in [Symbols -> Nat]
    BY <1>1 DEF InitialSupply
  <2>2. WithBalances = [bal |-> InitialBalance, circ |-> InitialSupply,
                        total |-> InitialSupply, height |-> 0, seed |-> 0,
                        handed |-> {}, issued |-> 0,
                        phrase |-> [p \in Phrases |-> Absent],
                        byAddr |-> [a \in Addrs |-> Absent]]
    BY DEF WithBalances, InitialSupply
  <2>3. WithBalances \in Store
    <3>1. MaxHeight \in Nat
      BY LedgerAssumption
    <3> HIDE DEF InitialSupply
    <3> QED
      BY <2>1, <2>2, <3>1, LedgerAssumption DEF Store
  <2>4. InitialSeed \in Nat
    BY LedgerAssumption
  <2> QED
    BY <2>3, <2>4, SeedStore DEF WithIdstore
<1>3. Covered(s0)
  BY <1>0, <1>1 DEF Covered
<1> QED
  BY <1>2, <1>3 DEF Init, SupplyInv, TypeOK


(* The writes of inc_idstore_seed, store and commit keep a store a store. *)
LEMMA IncStore ==
    ASSUME NEW s \in Store
    PROVE  [s EXCEPT !.seed = @ + 1, !.handed = @ \cup {s.seed},
                     !.issued = @ + 1] \in Store
<1>1. [s EXCEPT !.seed = @ + 1, !.handed = @ \cup {s.seed}, !.issued = @ + 1]
      = [s EXCEPT !.seed = s.seed + 1, !.handed = s.handed \cup {s.seed},
                  !.issued = s.issued + 1]
  OBVIOUS
<1>2. s.seed + 1 \in Nat /\ s.handed \cup {s.seed} \in SUBSET Nat
      /\ s.issued + 1 \in Nat
  BY DEF Store
<1>3. [s EXCEPT !.seed = s.seed + 1, !.handed = s.handed \cup {s.seed},
                !.issued = s.issued + 1] \in Store
  BY <1>2 DEF Store
<1> QED
  BY <1>1, <1>3

LEMMA CredStore ==
    ASSUME NEW s \in Store, NEW p \in Phrases, NEW a \in Addrs, NEW c \in Creds
    PROVE  [s EXCEPT !.phrase[p] = c, !.byAddr[a] = c] \in Store
<1>1. [s EXCEPT !.phrase[p] = c, !.byAddr[a] = c]
      = [s EXCEPT !.phrase = [s.phrase EXCEPT ![p] = c],
                  !.byAddr = [s.byAddr EXCEPT ![a] = c]]
  OBVIOUS
<1>2. /\ [s.phrase EXCEPT ![p] = c] \in [Phrases -> Creds \cup {Absent}]
      /\ [s.byAddr EXCEPT ![a] = c] \in [Addrs -> Creds \cup {Absent}]
  BY DEF Store
<1>3. [s EXCEPT !.phrase = [s.phrase EXCEPT ![p] = c],
                !.byAddr = [s.byAddr EXCEPT ![a] = c]] \in Store
  BY <1>2 DEF Store
<1> QED
  BY <1>1, <1>3

LEMMA HeightStore ==
    ASSUME NEW s \in Store, s.height < MaxHeight
    PROVE  [s EXCEPT !.height = @ + 1] \in Store
<1>1. s.height + 1 \in 0..MaxHeight
  BY LedgerAssumption DEF Store
<1>2. [s EXCEPT !.height = s.height + 1] \in Store
  BY <1>1 DEF Store
<1> QED
  BY <1>2

(* maybe_commit of a covered store keeps both trees covered stores.       *)
LEMMA MaybeCommitSupply ==
    ASSUME NEW w, w \in Store, Covered(w), disk \in Store, Covered(disk),
           MaybeCommit(w)
    PROVE  /\ work' \in Store /\ Covered(work')
           /\ disk' \in Store /\ Covered(disk')
BY DEF MaybeCommit

LEMMA SupplyStep == SupplyInv /\ [Next]_vars => SupplyInv'
<1> SUFFICES ASSUME SupplyInv, [Next]_vars PROVE SupplyInv'
  OBVIOUS
<1>0. /\ work \in Store /\ disk \in Store /\ nOps \in 0..MaxOps
      /\ Covered(work) /\ Covered(disk)
  BY DEF SupplyInv, TypeOK
<1>1. ASSUME NEW sender \in Senders, NEW sym \in SymbolInputs,
             NEW dist \in Distributions, Mint(sender, sym, dist)
      PROVE  SupplyInv'
  <2>1. /\ sym \in Symbols /\ nOps' = nOps + 1 /\ nOps < MaxOps
        /\ MaybeCommit(MintedTree(work, sym, dist))
    BY <1>1, MintIs
  <2>2. MintedTree(work, sym, dist) \in Store
        /\ Covered(MintedTree(work, sym, dist))
    BY <1>0, <2>1, MintedCovered
  <2>3. nOps' \in 0..MaxOps
    BY <1>0, <2>1
  <2> QED
    BY <1>0, <2>1, <2>2, <2>3, MaybeCommitSupply DEF SupplyInv, TypeOK
<1>2. ASSUME NEW sender \in Senders, NEW sym \in SymbolInputs,
             NEW dist \in Distributions, NEW u \in {"none", "true", "false"},
             Burn(sender, sym, dist, u)
      PROVE  SupplyInv'
  <2>1. /\ sym \in Symbols /\ nOps' = nOps + 1 /\ nOps < MaxOps
        /\ MaybeCommit(BurntTree(work, sym, dist))
        /\ \A a \in DOMAIN dist :
              dist[a] # 0 /\ dist[a] <= ReadBalance(work, a, sym)
    BY <1>2, BurnIs
  <2>2. BurntTree(work, sym, dist) \in Store
        /\ Covered(BurntTree(work, sym, dist))
    BY <1>0, <2>1, BurntCovered
  <2>3. nOps' \in 0..MaxOps
    BY <1>0, <2>1
  <2> QED
    BY <1>0, <2>1, <2>2, <2>3, MaybeCommitSupply DEF SupplyInv, TypeOK
<1>3. CASE IncIdstoreSeed
  <2> DEFINE w == [work EXCEPT !.seed = @ + 1, !.handed = @ \cup {work.seed},
                               !.issued = @ + 1]
  <2>1. MaybeCommit(w) /\ nOps' = nOps
    BY <1>3 DEF IncIdstoreSeed
  <2>2. w \in Store
    BY <1>0, IncStore
  <2>3. w.bal = work.bal /\ w.circ = work.circ /\ w.total = work.total
    BY <1>0 DEF Store
  <2>4. Covered(w)
    BY <1>0, <2>3, CoveredKept
  <2> QED
    BY <1>0, <2>1, <2>2, <2>4, MaybeCommitSupply DEF SupplyInv, TypeOK
<1>4. ASSUME NEW p \in Phrases, NEW a \in Addrs, NEW c \in Creds,
             StoreCredential(p, a, c)
      PROVE  SupplyInv'
  <2> DEFINE w == [work EXCEPT !.phrase[p] = c, !.byAddr[a] = c]
  <2>1. MaybeCommit(w) /\ nOps' = nOps + 1 /\ nOps < MaxOps
    BY <1>4 DEF StoreCredential
  <2>2. w \in Store
    BY <1>0, CredStore
  <2>3. w.bal = work.bal /\ w.circ = work.circ /\ w.total = work.total
    BY <1>0 DEF Store
  <2>4. Covered(w)
    BY <1>0, <2>3, CoveredKept
  <2>5. nOps' \in 0..MaxOps
    BY <1>0, <2>1
  <2> QED
    BY <1>0, <2>1, <2>2, <2>4, <2>5, MaybeCommitSupply DEF SupplyInv, TypeOK
<1>5. CASE Commit
  <2> DEFINE w == [work EXCEPT !.height = @ + 1]
  <2>1. work' = w /\ disk' = w /\ nOps' = nOps /\ work.height < MaxHeight
    BY <1>5 DEF Commit
  <2>2. w \in Store
    BY <1>0, <2>1, HeightStore
  <2>3. w.bal = work.bal /\ w.circ = work.circ /\ w.total = work.total
    BY <1>0 DEF Store
  <2>4. Covered(w)
    BY <1>0, <2>3, CoveredKept
  <2> QED
    BY <1>0, <2>1, <2>2, <2>4 DEF SupplyInv, TypeOK
<1>6. CASE Restart
  BY <1>0, <1>6 DEF Restart, SupplyInv, TypeOK
<1>7. CASE UNCHANGED vars
  BY <1>0, <1>7 DEF vars, SupplyInv, TypeOK
<1> QED
  BY <1>1, <1>2, <1>3, <1>4, <1>5, <1>6, <1>7 DEF Next

(* Every tree the ledger stages or commits is well formed: the balances   *)
(* and supplies stay naturals through every burn_token, and the height    *)
(* and seed keep their types, across commits and crashes.                 *)
THEOREM TypeCorrect == Spec => []TypeOK
<1>1. SupplyInv => TypeOK
  BY DEF SupplyInv
<1> QED
  BY SupplyInit, SupplyStep, <1>1, PTL DEF Spec

(* Two trees with the same balances and supplies.                          *)
SameSupply(t, s) == t.bal = s.bal /\ t.circ = s.circ /\ t.total = s.total

(* inc_idstore_seed, store and commit leave the balances and supplies     *)
(* alone; a restart reopens the committed tree.                           *)
LEMMA QuietStep ==
    ASSUME work \in Store,
           \/ IncIdstoreSeed
           \/ \E p \in Phrases, a \in Addrs, c \in Creds : StoreCredential(p, a, c)
           \/ Commit \/ Restart \/ UNCHANGED vars
    PROVE  /\ SameSupply(work', work) \/ work' = disk
           /\ disk' = disk \/ disk' = work'
<1>1. CASE IncIdstoreSeed
  <2> DEFINE w == [work EXCEPT !.seed = @ + 1, !.handed = @ \cup {work.seed},
                               !.issued = @ + 1]
  <2>1. MaybeCommit(w)
    BY <1>1 DEF IncIdstoreSeed
  <2>2. SameSupply(w, work)
    BY DEF Store, SameSupply
  <2> QED
    BY <2>1, <2>2 DEF MaybeCommit
<1>2. ASSUME NEW p \in Phrases, NEW a \in Addrs, NEW c \in Creds,
             StoreCredential(p, a, c)
      PROVE  /\ SameSupply(work', work) \/ work' = disk
             /\ disk' = disk \/ disk' = work'
  <2> DEFINE w == [work EXCEPT !.phrase[p] = c, !.byAddr[a] = c]
  <2>1. MaybeCommit(w)
    BY <1>2 DEF StoreCredential
  <2>2. SameSupply(w, work)
    BY DEF Store, SameSupply
  <2> QED
    BY <2>1, <2>2 DEF MaybeCommit
<1>3. CASE Commit
  <2>1. work' = [work EXCEPT !.height = @ + 1] /\ disk' = work'
    BY <1>3 DEF Commit
  <2>2. SameSupply([work EXCEPT !.height = @ + 1], work)
    BY DEF Store, SameSupply
  <2> QED
    BY <2>1, <2>2
<1>4. CASE Restart
  BY <1>4 DEF Restart
<1>5. CASE UNCHANGED vars
  BY <1>5 DEF vars, SameSupply
<1> QED
  BY <1>1, <1>2, <1>3, <1>4, <1>5

(* The supply covers the balances, for every set of addresses, the        *)
(* anonymous one included: in the working tree and in the committed one,  *)
(* the total supply equals the circulating supply, which is at least the  *)
(* sum of the balances, across mints, burns, commits and crashes.  It is   *)
(* no more than at least: mint_token overwrites the anonymous address's   *)
(* balance with the amount, since get_multiple_balances reads it as zero. *)
THEOREM SupplyCovers == Spec => []SupplyCoversBalances
<1>1. SupplyInv => SupplyCoversBalances
  BY DEF SupplyInv, Covered, SupplyCoversBalances, SumFunction, SumOn, BalOf
<1> QED
  BY <1>1, SupplyInit, SupplyStep, PTL DEF Spec

(* A tree whose circulating supply of every symbol with a maximum is      *)
(* within it.                                                              *)
Capped(s) ==
    \A y \in Symbols : Maximum[y] # Absent => s.circ[y] <= Maximum[y]

(* The initial balances are within the maximum: with_balances does not    *)
(* check them against it, so the theorem below takes it as a hypothesis.  *)
InitialWithinMaximum ==
    \A y \in Symbols : Maximum[y] # Absent => InitialSupply[y] <= Maximum[y]

CapInv == SupplyInv /\ Capped(work) /\ Capped(disk)

LEMMA MintedCapped ==
    ASSUME NEW s \in Store, Covered(s), Capped(s), NEW sym \in Symbols,
           NEW dist \in Distributions,
           Maximum[sym] # Absent => s.circ[sym] + Amount(dist) <= Maximum[sym]
    PROVE  Capped(MintedTree(s, sym, dist))
<1>1. MintedTree(s, sym, dist).circ = [s.circ EXCEPT ![sym] = @ + Amount(dist)]
  BY MintedCovered
<1>2. s.circ \in [Symbols -> Nat]
  BY DEF Store
<1> QED
  BY <1>1, <1>2 DEF Capped

LEMMA BurntCapped ==
    ASSUME NEW s \in Store, Covered(s), Capped(s), NEW sym \in Symbols,
           NEW dist \in Distributions,
           \A a \in DOMAIN dist : dist[a] # 0 /\ dist[a] <= ReadBalance(s, a, sym)
    PROVE  Capped(BurntTree(s, sym, dist))
<1>1. BurntTree(s, sym, dist).circ = [s.circ EXCEPT ![sym] = @ - Amount(dist)]
  BY BurntCovered
<1>2. s.circ \in [Symbols -> Nat] /\ Amount(dist) \in Nat
  BY AmountNat DEF Store
<1> QED
  BY <1>1, <1>2 DEF Capped

LEMMA CapStep == CapInv /\ [Next]_vars => Capped(work') /\ Capped(disk')
<1> SUFFICES ASSUME CapInv, [Next]_vars
             PROVE  Capped(work') /\ Capped(disk')
  OBVIOUS
<1>0. /\ work \in Store /\ Covered(work) /\ Capped(work) /\ Capped(disk)
  BY DEF CapInv, SupplyInv, TypeOK
<1>1. ASSUME NEW sender \in Senders, NEW sym \in SymbolInputs,
             NEW dist \in Distributions, Mint(sender, sym, dist)
      PROVE  Capped(work') /\ Capped(disk')
  <2>1. /\ sym \in Symbols /\ MaybeCommit(MintedTree(work, sym, dist))
        /\ Maximum[sym] # Absent =>
              work.circ[sym] + Amount(dist) <= Maximum[sym]
    BY <1>1, MintIs
  <2>2. Capped(MintedTree(work, sym, dist))
    BY <1>0, <2>1, MintedCapped
  <2> QED
    BY <1>0, <2>1, <2>2 DEF MaybeCommit
<1>2. ASSUME NEW sender \in Senders, NEW sym \in SymbolInputs,
             NEW dist \in Distributions, NEW u \in {"none", "true", "false"},
             Burn(sender, sym, dist, u)
      PROVE  Capped(work') /\ Capped(disk')
  <2>1. /\ sym \in Symbols /\ MaybeCommit(BurntTree(work, sym, dist))
        /\ \A a \in DOMAIN dist :
              dist[a] # 0 /\ dist[a] <= ReadBalance(work, a, sym)
    BY <1>2, BurnIs
  <2>2. Capped(BurntTree(work, sym, dist))
    BY <1>0, <2>1, BurntCapped
  <2> QED
    BY <1>0, <2>1, <2>2 DEF MaybeCommit
<1>3. ASSUME \/ IncIdstoreSeed
             \/ \E p \in Phrases, a \in Addrs, c \in Creds : StoreCredential(p, a, c)
             \/ Commit \/ Restart \/ UNCHANGED vars
      PROVE  Capped(work') /\ Capped(disk')
  <2>1. /\ SameSupply(work', work) \/ work' = disk
        /\ disk' = disk \/ disk' = work'
    BY <1>0, <1>3, QuietStep
  <2>2. Capped(work')
    BY <1>0, <2>1 DEF SameSupply, Capped
  <2> QED
    BY <1>0, <2>1, <2>2
<1> QED
  BY <1>1, <1>2, <1>3 DEF Next

(* No sequence of mints, burns, commits and crashes takes the circulating *)
(* supply of a symbol past its maximum, as long as the initial balances   *)
(* are within it: mint_token checks the circulating supply plus the whole *)
(* amount against the maximum, and burn_token only lowers the supply.     *)
THEOREM SupplyCapped ==
    ASSUME InitialWithinMaximum
    PROVE  Spec => []SupplyWithinMaximum
<1>1. Init => CapInv
  <2> SUFFICES ASSUME Init PROVE CapInv
    OBVIOUS
  <2>1. Capped(WithIdstore(WithBalances))
    BY InitialTree DEF Capped, InitialWithinMaximum
  <2> QED
    BY <2>1, SupplyInit DEF Init, CapInv
<1>2. CapInv /\ [Next]_vars => CapInv'
  BY SupplyStep, CapStep DEF CapInv
<1>3. CapInv => SupplyWithinMaximum
  BY DEF CapInv, Capped, SupplyWithinMaximum
<1> QED
  BY <1>1, <1>2, <1>3, PTL DEF Spec

=============================================================================
