-------------------------- MODULE MigrationProofs --------------------------
(* Proofs about the migration engine driven by the ledger's two-step      *)
(* commit: the types of the state, and that no initialize_fn runs twice, *)
(* whatever the configuration, the registry and the crashes.              *)
EXTENDS Migration, WellFoundedInduction, SequenceTheorems, TLAPS

USE RegistryAssumption, ConfigAssumption, HeightAssumption

-----------------------------------------------------------------------------
(* TypeOK is not inductive alone: CommitMigrations records the height in *)
(* updates, whose type is 1..MaxHeight, so the height must be positive    *)
(* between the two commits.  It is: the first commit incremented it.      *)
TypeInv ==
    /\ TypeOK
    /\ pc = "stored" => height \in 1..MaxHeight

(* InitializeAtMostOnce is not inductive alone either.  A migration that  *)
(* was initialized has a block height the store has reached, and it is    *)
(* not the height of a commit still half done: a restart reloads at the  *)
(* stored height but never re-runs the commit's second part at a height  *)
(* already migrated, and the next first part moves the height past it.    *)
OnceInv ==
    /\ TypeInv
    /\ \A m \in Registry :
          /\ initCount[m] <= 1
          /\ initCount[m] = 1 =>
                /\ Migrations[m] \in 0..height
                /\ pc = "stored" => Migrations[m] # height

LEMMA TypeInvInit == Init => TypeInv
BY DEF Init, TypeInv, TypeOK

LEMMA TypeInvStep == TypeInv /\ [Next]_vars => TypeInv'
<1> SUFFICES ASSUME TypeInv, [Next]_vars PROVE TypeInv'
  OBVIOUS
<1> USE DEF TypeInv, TypeOK
<1>1. CASE CommitStorage
  BY <1>1 DEF CommitStorage
<1>2. CASE CommitMigrations
  <2>1. initCount' \in [Registry -> Nat]
    BY <1>2 DEF CommitMigrations
  <2>2. updates' \in [Registry -> SUBSET (1..MaxHeight)]
    BY <1>2 DEF CommitMigrations
  <2> QED
    BY <1>2, <2>1, <2>2 DEF CommitMigrations
<1>3. CASE Restart
  BY <1>3 DEF Restart
<1>4. CASE UNCHANGED vars
  BY <1>4 DEF vars
<1> QED
  BY <1>1, <1>2, <1>3, <1>4 DEF Next

(* Every state of the engine has the types TypeOK states.                 *)
THEOREM TypeCorrect == Spec => []TypeOK
<1>1. TypeInv => TypeOK
  BY DEF TypeInv
<1> QED
  BY TypeInvInit, TypeInvStep, <1>1, PTL DEF Spec

-----------------------------------------------------------------------------
LEMMA OnceInit == Init => OnceInv
BY TypeInvInit DEF Init, OnceInv

LEMMA OnceStep == OnceInv /\ [Next]_vars => OnceInv'
<1> SUFFICES ASSUME OnceInv, [Next]_vars,
                    NEW m \in Registry
             PROVE  /\ initCount'[m] <= 1
                    /\ initCount'[m] = 1 =>
                          /\ Migrations[m] \in 0..height'
                          /\ pc' = "stored" => Migrations[m] # height'
  BY TypeInvStep DEF OnceInv
<1>0. /\ initCount[m] \in Nat /\ height \in Nat
      /\ initCount[m] <= 1
      /\ initCount[m] = 1 =>
            /\ Migrations[m] \in 0..height
            /\ pc = "stored" => Migrations[m] # height
  BY DEF OnceInv, TypeInv, TypeOK
<1>1. CASE CommitStorage
  BY <1>0, <1>1 DEF CommitStorage
<1>2. CASE CommitMigrations
  <2>1. CASE Initialize(m, height)
    <3>1. initCount[m] = 0
      BY <1>0, <1>2, <2>1 DEF CommitMigrations, Initialize
    <3>2. initCount'[m] = 1 /\ Migrations[m] = height /\ pc' = "idle"
      BY <1>0, <1>2, <2>1, <3>1 DEF CommitMigrations, Initialize
    <3> QED
      BY <1>0, <1>2, <3>2 DEF CommitMigrations
  <2>2. CASE ~Initialize(m, height)
    BY <1>0, <1>2, <2>2 DEF CommitMigrations
  <2> QED
    BY <2>1, <2>2
<1>3. CASE Restart
  BY <1>0, <1>3 DEF Restart
<1>4. CASE UNCHANGED vars
  BY <1>0, <1>4 DEF vars
<1> QED
  BY <1>1, <1>2, <1>3, <1>4 DEF Next

(* No migration's initialize_fn runs twice: the ledger's commit runs it   *)
(* only at the migration's block height, in the second part of the       *)
(* commit, and neither a crash between the parts nor a restart brings the *)
(* store back to a height that was already migrated.                     *)
THEOREM InitializeOnce == Spec => []InitializeAtMostOnce
<1>1. OnceInv => InitializeAtMostOnce
  BY DEF OnceInv, InitializeAtMostOnce
<1> QED
  BY OnceInit, OnceStep, <1>1, PTL DEF Spec

-----------------------------------------------------------------------------
(* load_migrations yields a block height for every migration it enables:  *)
(* the last configuration entry that names it exists, since the indices   *)
(* that name it have a largest element: the least of their upper bounds, *)
(* which exists since < is well founded on the naturals.                  *)
IndexBound(m, k) == \A i \in DOMAIN Config : Config[i].type = m => i <= k

LEMMA LastEntryExists ==
    ASSUME NEW m, \E i \in DOMAIN Config : Config[i].type = m
    PROVE  \E i \in DOMAIN Config :
              /\ Config[i].type = m
              /\ \A j \in DOMAIN Config : Config[j].type = m => j <= i
<1> DEFINE Bounds == {k \in Nat : IndexBound(m, k)}
<1>0. DOMAIN Config = 1..Len(Config) /\ Len(Config) \in Nat
  BY ConfigAssumption
<1>1. Len(Config) \in Bounds
  BY <1>0 DEF IndexBound
<1>2. PICK k \in Bounds : \A y \in Bounds : ~(<<y, k>> \in OpToRel(<, Nat))
  BY <1>1, WFMin, NatLessThanWellFounded
<1>3. \A y \in Bounds : ~(y < k)
  BY <1>2 DEF OpToRel
<1>9. k \in Nat /\ \A i \in DOMAIN Config : Config[i].type = m => i <= k
  BY <1>2 DEF IndexBound
<1>4. PICK i0 \in DOMAIN Config : Config[i0].type = m
  OBVIOUS
<1>5. k >= 1
  BY <1>0, <1>4, <1>9
<1>6. k - 1 \notin Bounds
  BY <1>3, <1>5
<1>7. PICK i \in DOMAIN Config : Config[i].type = m /\ ~(i <= k - 1)
  BY <1>5, <1>6 DEF IndexBound
<1>8. i = k
  BY <1>0, <1>7, <1>9
<1> QED
  BY <1>7, <1>8, <1>9

(* Every enabled migration's block height is a natural number.           *)
LEMMA MigrationHeightNat ==
    ASSUME NEW m, Enabled(m) PROVE Migrations[m] \in Nat
<1> DEFINE names == {Config[i].type : i \in DOMAIN Config}
           last(n) == CHOOSE i \in DOMAIN Config :
                         /\ Config[i].type = n
                         /\ \A j \in DOMAIN Config : Config[j].type = n => j <= i
<1>1. m \in names /\ Migrations = [n \in names |-> Config[last(n)].block_height]
  BY DEF Enabled, Migrations, LoadMigrations
<1>2. last(m) \in DOMAIN Config
  BY <1>1, LastEntryExists
<1>3. Config[last(m)].block_height \in Nat
  <2>1. Config[last(m)] \in [type : Registry, block_height : Nat]
    <3>1. last(m) \in 1..Len(Config)
      BY <1>2, ConfigAssumption, LenProperties
    <3> QED
      BY <3>1, ConfigAssumption, ElementOfSeq
  <2> QED
    BY <2>1
<1> QED
  BY <1>1, <1>3

-----------------------------------------------------------------------------
(* is_active never goes back because the migration set's height never    *)
(* does: it is only ever set to the stored height, which is never below  *)
(* it.                                                                    *)
MonoInv == TypeInv /\ setHeight <= height

LEMMA MonoInit == Init => MonoInv
BY TypeInvInit DEF Init, MonoInv

LEMMA MonoStep == MonoInv /\ [Next]_vars => MonoInv' /\ setHeight <= setHeight'
<1> SUFFICES ASSUME MonoInv, [Next]_vars
             PROVE  setHeight' <= height' /\ setHeight <= setHeight'
  BY TypeInvStep DEF MonoInv
<1> USE DEF MonoInv, TypeInv, TypeOK
<1> QED
  BY DEF Next, CommitStorage, CommitMigrations, Restart, vars

(* Once the engine sees a migration active it sees it active at every    *)
(* later step: neither the ledger's commit nor a restart, which reloads  *)
(* the migrations at the stored height, moves the set's height back.     *)
THEOREM ActiveStaysActive == Spec => IsActiveMonotone
<1>1. MonoInv /\ [Next]_vars =>
        [\A m \in Registry : IsActive(m, setHeight) => IsActive(m, setHeight')]_vars
  <2> SUFFICES ASSUME MonoInv, [Next]_vars, NEW m \in Registry,
                      IsActive(m, setHeight)
               PROVE  IsActive(m, setHeight')
    BY DEF vars
  <2>1. Migrations[m] \in Nat /\ Enabled(m)
    BY MigrationHeightNat DEF IsActive
  <2>2. setHeight <= setHeight' /\ setHeight' \in Nat /\ setHeight \in Nat
    BY MonoStep DEF MonoInv, TypeInv, TypeOK
  <2> QED
    BY <2>1, <2>2 DEF IsActive
<1> QED
  BY MonoInit, MonoStep, <1>1, PTL DEF Spec, IsActiveMonotone

=============================================================================
