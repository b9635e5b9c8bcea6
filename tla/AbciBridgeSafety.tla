-------------------------- MODULE AbciBridgeSafety --------------------------
(* Proofs of the bridge's remaining safety properties: the cache's        *)
(* coverage of executions and the monotone legacy rewrite.                *)
EXTENDS AbciBridgeProofs

USE EnvelopeAssumption, TimeAssumption, BoundAssumption, NoneAssumption

-----------------------------------------------------------------------------
(* The cache covers every execution.  With the types, the property is     *)
(* inductive: the cache only grows, the lock is never unpoisoned, the     *)
(* responses only grow, and each step that executes an envelope also      *)
(* caches it, poisons the lock, or records the lost answer (code 1).      *)
CoverInv == TypeOK /\ CacheCoversExecution

LEMMA CoverStep == CoverInv /\ [Next]_vars => CoverInv'
<1> SUFFICES ASSUME TypeOK, CacheCoversExecution, [Next]_vars
             PROVE  CacheCoversExecution'
  BY TypeStep DEF CoverInv
<1>0. executed \in [Envelope -> Nat]
  BY TypeSplit DEF TypeData
<1>1. ASSUME NEW e \in Envelope, DeliverTransportError(e)
      PROVE CacheCoversExecution'
  <2>1. PICK now \in NowChoices, lost \in BOOLEAN :
          executed' = IF lost /\ "ok" \in BackendAnswers(e, now)
                      THEN [executed EXCEPT ![e] = @ + 1]
                      ELSE executed
    BY <1>1 DEF DeliverTransportError
  <2>2. NoData(e, 1) \in responses' /\ NoData(e, 1).env = e /\ NoData(e, 1).code = 1
    BY <1>1 DEF DeliverTransportError, NoData
  <2>3. responses \subseteq responses' /\ UNCHANGED <<cache, poisoned>>
    BY <1>1 DEF DeliverTransportError
  <2>4. \A x \in Envelope : x # e => executed'[x] = executed[x]
    BY <1>0, <2>1
  <2> QED
    BY <2>2, <2>3, <2>4 DEF CacheCoversExecution
<1>2. ASSUME NEW e \in Envelope, DeliverAnswered(e) PROVE CacheCoversExecution'
  <2>1. PICK now \in NowChoices, rf \in BOOLEAN, enc \in BOOLEAN :
               \E a \in BackendAnswers(e, now) : RecordAnswer(e, a, rf, enc)
    BY <1>2 DEF DeliverAnswered
  <2>2. PICK a \in BackendAnswers(e, now) : RecordAnswer(e, a, rf, enc)
    BY <2>1
  <2>3. \A x \in Envelope : x # e => executed'[x] = executed[x]
    BY <1>0, <2>2 DEF RecordAnswer
  <2>4. CASE rf
    <3>1. poisoned' = TRUE /\ UNCHANGED <<cache, responses>>
      BY <2>2, <2>4 DEF RecordAnswer
    <3> QED
      BY <3>1 DEF CacheCoversExecution
  <2>5. CASE ~rf
    <3>1. cache' = cache \cup {e} /\ responses \subseteq responses'
          /\ poisoned' = poisoned
      BY <2>2, <2>5 DEF RecordAnswer
    <3> QED
      BY <2>3, <3>1 DEF CacheCoversExecution
  <2> QED
    BY <2>4, <2>5
<1>3. CASE UNCHANGED <<cache, poisoned, executed>> /\ responses \subseteq responses'
  BY <1>3 DEF CacheCoversExecution
<1> QED
  BY <1>1, <1>2, <1>3 DEF Next, BeginBlock, CheckValidate, CheckTime,
                          DeliverMalformed, Query,
                          EndBlock, Commit, vars

(* Every envelope the backend executed is in the cache, unless its answer *)
(* was lost (TransportRequestError recorded) or the cache lock is         *)
(* poisoned: the bridge never silently forgets an execution.              *)
THEOREM ExecutionsCovered == Spec => []CacheCoversExecution
<1>1. Init => CoverInv
  BY TypeInit DEF Init, CoverInv, CacheCoversExecution
<1>2. CoverInv => CacheCoversExecution
  BY DEF CoverInv
<1> QED
  BY <1>1, <1>2, CoverStep, PTL DEF Spec
-----------------------------------------------------------------------------
(* The legacy rewrite.  LegacyRewriteMonotone compares responses of       *)
(* different blocks, so it is not inductive: a new response must agree    *)
(* with the older ones.  The strengthening records that the migration     *)
(* height never passes the block height and only grows (begin_block sets *)
(* it to the new height), that no response is from a later block, that   *)
(* a rewritten response means the migration is active now, and that the   *)
(* responses of the current block were rewritten exactly when the         *)
(* migration is active now (nothing changes migHeight inside a block).    *)
LegacyInv ==
    /\ TypeOK
    /\ migHeight <= height
    /\ \A r \in responses : r.h <= height
    /\ \A r \in responses :
          r.orig = "attr" /\ r.err = "unknown" => IsActive(migHeight)
    /\ \A r \in responses :
          r.orig = "attr" /\ r.h = height =>
              (r.err = "unknown" <=> IsActive(migHeight))
    /\ LegacyRewriteMonotone

LEMMA LegacyInit == Init => LegacyInv
BY TypeInit DEF Init, LegacyInv, LegacyRewriteMonotone

(* A migration that is active stays active when its height grows.         *)
LEMMA ActiveGrows ==
    ASSUME NEW h1 \in Nat, NEW h2 \in Nat, h1 <= h2, IsActive(h1)
    PROVE  IsActive(h2)
BY DEF IsActive

LEMMA LegacyStep == LegacyInv /\ [Next]_vars => LegacyInv'
<1> SUFFICES ASSUME LegacyInv, [Next]_vars PROVE LegacyInv'
  OBVIOUS
<1> USE DEF LegacyInv
<1>0. /\ TypeOK'
      /\ height \in Nat /\ migHeight \in Nat
      /\ \A r \in responses : r.h \in Nat
  BY TypeStep DEF TypeOK, Response
<1>1. ASSUME NEW t \in Time \cup {None, BadTime}, NEW hh \in BOOLEAN,
             BeginBlock(t, hh)
      PROVE LegacyInv'
  <2>1. /\ height' = height + 1 /\ migHeight <= migHeight'
        /\ migHeight' <= height' /\ responses' = responses
        /\ migHeight' \in Nat
    BY <1>0, <1>1 DEF BeginBlock
  <2>2. IsActive(migHeight) => IsActive(migHeight')
    BY <1>0, <2>1, ActiveGrows
  <2> QED
    BY <1>0, <2>1, <2>2 DEF LegacyRewriteMonotone
<1>2. ASSUME NEW e \in Envelope, NEW c \in DeliverCodes,
             UNCHANGED <<height, migHeight>>, responses' = responses \cup {NoData(e, c)}
      PROVE LegacyInv'
  <2>1. NoData(e, c).orig # "attr" /\ NoData(e, c).h = height
    BY NoneAssumption DEF NoData, BackendAnswer
  <2> QED
    BY <1>0, <1>2, <2>1 DEF LegacyRewriteMonotone
<1>3. ASSUME NEW e \in Envelope, DeliverAnswered(e) PROVE LegacyInv'
  <2>1. PICK now \in NowChoices, rf \in BOOLEAN, enc \in BOOLEAN :
               \E a \in BackendAnswers(e, now) : RecordAnswer(e, a, rf, enc)
    BY <1>3 DEF DeliverAnswered
  <2>2. PICK a \in BackendAnswers(e, now) : RecordAnswer(e, a, rf, enc)
    BY <2>1
  <2>3. UNCHANGED <<height, migHeight>>
    BY <1>3 DEF DeliverAnswered
  <2>4. CASE rf
    BY <2>2, <2>3, <2>4, <1>0 DEF RecordAnswer, LegacyRewriteMonotone
  <2>5. CASE ~rf
    <3> DEFINE resp == [h |-> height, env |-> e, code |-> IF enc THEN 0 ELSE 3,
                        orig |-> a, err |-> LegacyRewrite(a)]
    <3>1. responses' = responses \cup {resp}
      BY <2>2, <2>5 DEF RecordAnswer
    <3>2. resp.h = height
          /\ (resp.orig = "attr" => (resp.err = "unknown" <=> IsActive(migHeight)))
      BY DEF LegacyRewrite
    <3>3. \A r1, r2 \in responses' :
             /\ r1.orig = "attr" /\ r2.orig = "attr"
             /\ r1.h <= r2.h /\ r1.err = "unknown"
             => r2.err = "unknown"
      <4> SUFFICES ASSUME NEW r1 \in responses', NEW r2 \in responses',
                          r1.orig = "attr", r2.orig = "attr",
                          r1.h <= r2.h, r1.err = "unknown"
                   PROVE  r2.err = "unknown"
        OBVIOUS
      <4>1. IsActive(migHeight)
        BY <3>1, <3>2
      <4>2. CASE r2 = resp
        BY <4>1, <4>2, <3>2
      <4>3. CASE r2 \in responses /\ r1 = resp
        BY <4>1, <4>3, <3>2, <1>0
      <4>4. CASE r2 \in responses /\ r1 \in responses
        BY <4>4 DEF LegacyRewriteMonotone
      <4> QED
        BY <3>1, <4>2, <4>3, <4>4
    <3> QED
      BY <1>0, <2>3, <3>1, <3>2, <3>3 DEF LegacyRewriteMonotone
  <2> QED
    BY <2>4, <2>5
<1>4. CASE UNCHANGED <<height, migHeight, responses>>
  BY <1>0, <1>4 DEF LegacyRewriteMonotone
<1> QED
  <2>1. ASSUME NEW e \in Envelope, DeliverMalformed(e) PROVE LegacyInv'
    BY <1>2, <2>1 DEF DeliverMalformed, DeliverCodes
  <2>2. ASSUME NEW e \in Envelope, DeliverTransportError(e) PROVE LegacyInv'
    BY <1>2, <2>2 DEF DeliverTransportError, DeliverCodes
  <2> QED
    BY <1>1, <1>3, <1>4, <2>1, <2>2 DEF Next, CheckValidate, CheckTime, Query,
                                        EndBlock, Commit,
                                        vars

(* Once a block's deliver_tx rewrites AttributeNotFound to Unknown, every *)
(* later one does too: the legacy_error_code migration, switched by       *)
(* begin_block's height, is never switched off again.                      *)
THEOREM LegacyRewriteMonotoneHolds == Spec => []LegacyRewriteMonotone
<1>1. LegacyInv => LegacyRewriteMonotone
  BY DEF LegacyInv
<1> QED
  BY LegacyInit, LegacyStep, <1>1, PTL DEF Spec

=============================================================================
