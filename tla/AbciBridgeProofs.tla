------------------------- MODULE AbciBridgeProofs -------------------------
(* Proofs about the ABCI bridge, for every value of the constants that    *)
(* satisfies the module's assumptions.                                    *)
EXTENDS AbciBridge, TLAPS

USE EnvelopeAssumption, TimeAssumption, BoundAssumption

(* TypeOK without its Boolean conjunct: the SMT backend proves this part, *)
(* Zenon the Boolean one.                                                 *)
TypeData ==
    /\ blockTime \in Time \cup {None, BadTime}
    /\ migHeight \in 0..MaxHeight
    /\ height \in 0..MaxHeight
    /\ phase \in {"idle", "block", "ended"}
    /\ txInBlock \in 0..MaxTxPerBlock
    /\ cache \subseteq Envelope
    /\ executed \in [Envelope -> Nat]
    /\ queried \subseteq Envelope
    /\ mempool \subseteq Envelope
    /\ checking \in Envelope \cup {None}
    /\ responses \subseteq Response

LEMMA TypeSplit == TypeOK <=> TypeData /\ poisoned \in BOOLEAN
BY Zenon DEF TypeOK, TypeData

LEMMA TypeSplitPrime == TypeOK' <=> TypeData' /\ poisoned' \in BOOLEAN
BY Zenon DEF TypeOK, TypeData

(* A response without data is a Response.                                 *)
LEMMA NoDataType ==
    ASSUME TypeOK, NEW e \in Envelope, NEW c \in DeliverCodes
    PROVE  NoData(e, c) \in Response
BY DEF NoData, TypeOK, Response

(* Every state of a behaviour has the types TypeOK states.                *)
LEMMA TypeInit == Init => TypeOK
<1> SUFFICES ASSUME Init PROVE TypeOK
  OBVIOUS
<1>1. TypeData
  BY DEF Init, TypeData
<1>2. poisoned \in BOOLEAN
  BY Zenon DEF Init
<1> QED
  BY <1>1, <1>2, TypeSplit

LEMMA TypeStep == TypeOK /\ [Next]_vars => TypeOK'
<1> SUFFICES ASSUME TypeOK, [Next]_vars PROVE TypeData' /\ poisoned' \in BOOLEAN
  BY TypeSplitPrime
<1>0. TypeData /\ poisoned \in BOOLEAN
  BY TypeSplit
<1>1. ASSUME NEW t \in Time \cup {None, BadTime}, NEW hh \in BOOLEAN,
             BeginBlock(t, hh)
      PROVE TypeData' /\ poisoned' \in BOOLEAN
  <2>1. TypeData'
    BY <1>0, <1>1 DEF BeginBlock, TypeData
  <2>2. poisoned' \in BOOLEAN
    BY <1>0, <1>1, Zenon DEF BeginBlock
  <2> QED
    BY <2>1, <2>2
<1>2. ASSUME NEW e \in Envelope, CheckValidate(e)
      PROVE TypeData' /\ poisoned' \in BOOLEAN
  <2>1. TypeData'
    BY <1>0, <1>2 DEF CheckValidate, TypeData
  <2>2. poisoned' \in BOOLEAN
    BY <1>0, <1>2, Zenon DEF CheckValidate
  <2> QED
    BY <2>1, <2>2
<1>11. CASE CheckTime
  <2>1. TypeData'
    BY <1>0, <1>11 DEF CheckTime, TypeData
  <2>2. poisoned' \in BOOLEAN
    BY <1>0, <1>11, Zenon DEF CheckTime
  <2> QED
    BY <2>1, <2>2
<1>3. ASSUME NEW e \in Envelope, DeliverMalformed(e)
      PROVE TypeData' /\ poisoned' \in BOOLEAN
  <2>1. NoData(e, 2) \in Response
    BY NoDataType DEF DeliverCodes
  <2>2. TypeData'
    BY <1>0, <1>3, <2>1 DEF DeliverMalformed, Include, TypeData
  <2>3. poisoned' \in BOOLEAN
    BY <1>0, <1>3, Zenon DEF DeliverMalformed
  <2> QED
    BY <2>2, <2>3
<1>4. ASSUME NEW e \in Envelope, DeliverTransportError(e)
      PROVE TypeData' /\ poisoned' \in BOOLEAN
  <2>1. NoData(e, 1) \in Response
    BY NoDataType DEF DeliverCodes
  <2>2. TypeData'
    BY <1>0, <1>4, <2>1 DEF DeliverTransportError, Include, TypeData
  <2>3. poisoned' \in BOOLEAN
    BY <1>0, <1>4, Zenon DEF DeliverTransportError
  <2> QED
    BY <2>2, <2>3
<1>5. ASSUME NEW e \in Envelope, DeliverAnswered(e)
      PROVE TypeData' /\ poisoned' \in BOOLEAN
  <2>1. PICK now \in NowChoices, rf \in BOOLEAN, enc \in BOOLEAN :
               \E a \in BackendAnswers(e, now) : RecordAnswer(e, a, rf, enc)
    BY <1>5 DEF DeliverAnswered
  <2>2. PICK a \in BackendAnswers(e, now) : RecordAnswer(e, a, rf, enc)
    BY <2>1
  <2>3. a \in BackendAnswer /\ LegacyRewrite(a) \in BackendAnswer
    BY DEF BackendAnswers, BackendAnswer, LegacyRewrite
  <2>4. executed' \in [Envelope -> Nat]
    BY <1>0, <2>2 DEF RecordAnswer, TypeData
  <2>5. cache' \subseteq Envelope /\ responses' \subseteq Response
    <3>1. CASE rf
      BY <1>0, <2>2, <3>1 DEF RecordAnswer, TypeData
    <3>2. CASE ~rf
      <4>1. [h |-> height, env |-> e, code |-> IF enc THEN 0 ELSE 3,
             orig |-> a, err |-> LegacyRewrite(a)] \in Response
        BY <1>0, <2>3 DEF TypeData, Response, DeliverCodes
      <4> QED
        BY <1>0, <2>2, <3>2, <4>1 DEF RecordAnswer, TypeData
    <3> QED
      BY <3>1, <3>2
  <2>6. TypeData'
    BY <1>0, <1>5, <2>4, <2>5 DEF DeliverAnswered, Include, TypeData
  <2>7. poisoned' = TRUE \/ poisoned' = poisoned
    BY <2>2, Zenon DEF RecordAnswer
  <2>8. poisoned' \in BOOLEAN
    BY <1>0, <2>7, Zenon
  <2> QED
    BY <2>6, <2>8
<1>6. CASE EndBlock
  <2>1. TypeData'
    BY <1>0, <1>6 DEF EndBlock, TypeData
  <2>2. poisoned' \in BOOLEAN
    BY <1>0, <1>6, Zenon DEF EndBlock
  <2> QED
    BY <2>1, <2>2
<1>7. CASE Commit
  <2>1. TypeData'
    BY <1>0, <1>7 DEF Commit, TypeData
  <2>2. poisoned' \in BOOLEAN
    BY <1>0, <1>7, Zenon DEF Commit
  <2> QED
    BY <2>1, <2>2
<1>8. CASE UNCHANGED vars
  <2>1. TypeData'
    BY <1>0, <1>8 DEF vars, TypeData
  <2>2. poisoned' \in BOOLEAN
    BY <1>0, <1>8, Zenon DEF vars
  <2> QED
    BY <2>1, <2>2
<1>9. ASSUME NEW e \in Envelope, Query(e) PROVE TypeData' /\ poisoned' \in BOOLEAN
  <2>1. TypeData'
    BY <1>0, <1>9 DEF Query, TypeData
  <2>2. poisoned' \in BOOLEAN
    BY <1>0, <1>9, Zenon DEF Query
  <2> QED
    BY <2>1, <2>2
<1>10. QED
  BY <1>1, <1>2, <1>3, <1>4, <1>5, <1>6, <1>7, <1>8, <1>9, <1>11 DEF Next

(* TypeOK is an invariant of the bridge.                                  *)
THEOREM TypeCorrect == Spec => []TypeOK
BY TypeInit, TypeStep, PTL DEF Spec
-----------------------------------------------------------------------------
(* A resubmission is refused.  The action property rests on one invariant *)
(* relating the two connections: every envelope deliver_tx answered with   *)
(* Success is in the cache (message_executed runs before the answer, and   *)
(* when it panics no answer is recorded).                                  *)
ResubmitInv ==
    /\ TypeOK
    /\ Delivered \subseteq cache

(* Adding a response to the responses adds at most its envelope to the   *)
(* delivered envelopes, and nothing when its code is not Success.         *)
LEMMA DeliveredAdd ==
    ASSUME NEW S, NEW r
    PROVE  /\ {x.env : x \in {q \in S \cup {r} : q.code = 0}}
                 \subseteq {x.env : x \in {q \in S : q.code = 0}} \cup {r.env}
           /\ r.code # 0 =>
                 {x.env : x \in {q \in S \cup {r} : q.code = 0}}
                    = {x.env : x \in {q \in S : q.code = 0}}
BY Zenon

(* The first half of check_tx lets through only an envelope that is not   *)
(* in the cache.                                                           *)
LEMMA ValidatedUncached ==
    ASSUME NEW e, ValidateCode(e) = 0
    PROVE  e \notin cache
BY DEF ValidateCode

LEMMA ResubmitInit == Init => ResubmitInv
BY TypeInit DEF Init, ResubmitInv, Delivered

LEMMA ResubmitStep == ResubmitInv /\ [Next]_vars => ResubmitInv'
<1> SUFFICES ASSUME ResubmitInv, [Next]_vars
             PROVE  Delivered' \subseteq cache'
  BY TypeStep DEF ResubmitInv
<1>0. Delivered \subseteq cache
  BY DEF ResubmitInv
<1>1. ASSUME NEW t \in Time \cup {None, BadTime}, NEW hh \in BOOLEAN,
             BeginBlock(t, hh)
      PROVE Delivered' \subseteq cache'
  BY <1>0, <1>1 DEF BeginBlock, Delivered
<1>2. ASSUME NEW e \in Envelope, CheckValidate(e) PROVE Delivered' \subseteq cache'
  BY <1>0, <1>2 DEF CheckValidate, Delivered
<1>3. ASSUME NEW e \in Envelope, DeliverMalformed(e)
      PROVE Delivered' \subseteq cache'
  <2>1. Delivered' = Delivered
    BY <1>3, DeliveredAdd DEF DeliverMalformed, NoData, Delivered
  <2> QED
    BY <1>0, <1>3, <2>1 DEF DeliverMalformed
<1>4. ASSUME NEW e \in Envelope, DeliverTransportError(e)
      PROVE Delivered' \subseteq cache'
  <2>1. Delivered' = Delivered
    BY <1>4, DeliveredAdd DEF DeliverTransportError, NoData, Delivered
  <2> QED
    BY <1>0, <1>4, <2>1 DEF DeliverTransportError
<1>5. ASSUME NEW e \in Envelope, DeliverAnswered(e)
      PROVE Delivered' \subseteq cache'
  <2>1. PICK now \in NowChoices, rf \in BOOLEAN, enc \in BOOLEAN :
               \E a \in BackendAnswers(e, now) : RecordAnswer(e, a, rf, enc)
    BY <1>5 DEF DeliverAnswered
  <2>2. PICK a \in BackendAnswers(e, now) : RecordAnswer(e, a, rf, enc)
    BY <2>1
  <2>4. CASE rf
    <3>1. UNCHANGED <<cache, responses>>
      BY <2>2, <2>4 DEF RecordAnswer
    <3> QED
      BY <1>0, <3>1 DEF Delivered
  <2>5. CASE ~rf
    <3> DEFINE resp == [h |-> height, env |-> e,
                        code |-> IF enc THEN 0 ELSE 3, orig |-> a,
                        err |-> LegacyRewrite(a)]
    <3>1. cache' = cache \cup {e} /\ responses' = responses \cup {resp}
      BY <2>2, <2>5 DEF RecordAnswer
    <3>2. Delivered' \subseteq Delivered \cup {e}
      BY <3>1, DeliveredAdd DEF Delivered
    <3> QED
      BY <1>0, <3>1, <3>2
  <2> QED
    BY <2>4, <2>5
<1>6. CASE CheckTime \/ EndBlock \/ Commit \/ UNCHANGED vars
  BY <1>0, <1>6 DEF CheckTime, EndBlock, Commit, vars, Delivered
<1>7. ASSUME NEW e \in Envelope, Query(e) PROVE Delivered' \subseteq cache'
  BY <1>0, <1>7 DEF Query, Delivered
<1>8. QED
  BY <1>1, <1>2, <1>3, <1>4, <1>5, <1>6, <1>7 DEF Next

(* Every step of the bridge keeps ResubmitRejected's action: the only step *)
(* that starts a check past the cache section is CheckValidate, which      *)
(* lets through an uncached, hence undelivered, envelope.                  *)
LEMMA ResubmitAction ==
    ResubmitInv /\ [Next]_vars =>
        [checking = None /\ checking' # None => checking' \notin Delivered]_vars
<1> SUFFICES ASSUME ResubmitInv, [Next]_vars,
                    checking = None, checking' # None
             PROVE  checking' \notin Delivered
  OBVIOUS
<1>1. CASE \E e \in Envelope : CheckValidate(e)
  <2>1. PICK e \in Envelope : CheckValidate(e)
    BY <1>1
  <2>2. e \notin cache
    BY <2>1, ValidatedUncached DEF CheckValidate
  <2> QED
    BY <2>1, <2>2 DEF CheckValidate, ResubmitInv
<1>2. CASE ~\E e \in Envelope : CheckValidate(e)
  <2>1. checking' = checking \/ checking' = None
    BY <1>2 DEF Next, vars, BeginBlock, DeliverMalformed, DeliverTransportError,
       DeliverAnswered, Query, CheckTime, EndBlock, Commit
  <2> QED
    BY <2>1
<1> QED
  BY <1>1, <1>2

(* Resubmission protection holds for every instance: a check_tx that      *)
(* starts after deliver_tx answered Success for an envelope never gets    *)
(* past the cache.                                                        *)
THEOREM ResubmitRejectedHolds == Spec => ResubmitRejected
<1>1. Spec => []ResubmitInv
  BY ResubmitInit, ResubmitStep, PTL DEF Spec
<1>2. []ResubmitInv /\ [][Next]_vars =>
        [][checking = None /\ checking' # None => checking' \notin Delivered]_vars
  BY ResubmitAction, PTL
<1> QED
  BY <1>1, <1>2, PTL DEF Spec, ResubmitRejected
=============================================================================
