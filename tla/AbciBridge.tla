---------------------------- MODULE AbciBridge ----------------------------
(***************************************************************************)
(* The ABCI bridge of many-abci (src/many-abci/src/abci_app.rs): the       *)
(* consensus engine calls begin_block, check_tx, deliver_tx, end_block and *)
(* commit; the bridge forwards envelopes to the backend over HTTP and      *)
(* shares a request-validator cache between the check (mempool) and the    *)
(* deliver (consensus) connections.                                        *)
(*                                                                         *)
(* Data is abstracted: an envelope is a model value, its timestamp is      *)
(* TimestampOf[e], a backend answer is "ok", "attr" (an attribute-specific *)
(* error code), "unknown" or "other" (any other error).                    *)
(***************************************************************************)
EXTENDS Naturals, FiniteSets

CONSTANTS
    Envelope,       \* the signed envelopes the network may submit
    Malformed,      \* envelopes that CoseSign1::from_slice rejects
    NotMessage,     \* envelopes whose payload is not a RequestMessage
    Invalid,        \* envelopes the validator's validate_request rejects
    Time,           \* the timestamps (seconds) of the instance
    TimestampOf,    \* the timestamp carried by each envelope's message
    Timeout,        \* MANYABCI_DEFAULT_TIMEOUT (= MANYSERVER_DEFAULT_TIMEOUT)
    MaxHeight,      \* bound on the number of blocks
    MaxTxPerBlock,  \* bound on the number of deliver_tx calls per block
    LegacyHeight,   \* block_height of the legacy_error_code migration
    None,           \* Option::None (no block time yet / no check yet)
    BadTime,        \* a header time that Timestamp::new rejects
    Commands        \* envelopes whose message calls a state-changing endpoint

ASSUME EnvelopeAssumption ==
    /\ Malformed \subseteq Envelope
    /\ NotMessage \subseteq Envelope
    /\ Invalid \subseteq Envelope
    /\ Commands \subseteq Envelope
ASSUME TimeAssumption ==
    /\ Time \subseteq Nat
    /\ TimestampOf \in [Envelope -> Time]
    /\ Timeout \in Nat
    /\ 0 \in Time
    /\ None \notin Time /\ BadTime \notin Time /\ None # BadTime
ASSUME BoundAssumption ==
    /\ MaxHeight \in Nat
    /\ MaxTxPerBlock \in Nat
    /\ LegacyHeight \in Nat

(* ManyAbciCheckErrorCodes and ManyAbciDeliverErrorCodes (abci_app.rs).   *)
CheckCodes == {0, 4, 5, 6, 7, 9, 10}
DeliverCodes == {0, 1, 2, 3, 11}

BackendAnswer == {"ok", "attr", "unknown", "other"}

\* Option::None is none of the backend's answers.
ASSUME NoneAssumption == None \notin BackendAnswer

VARIABLES
    blockTime,   \* AbciApp.block_time: Option<u64>, written by begin_block
    migHeight,   \* the current height of AbciApp.migrations
    height,      \* the height of the block consensus is running
    phase,       \* where consensus is: "idle", "block" or "ended"
    txInBlock,   \* deliver_tx calls in the current block
    cache,       \* the envelopes message_executed recorded in the cache
    poisoned,    \* the cache RwLock is poisoned
    executed,    \* how many times the backend executed each envelope
    queried,     \* the commands the backend ran on behalf of query
    mempool,     \* the envelopes check_tx admitted and no block included yet
    checking,    \* the envelope whose check_tx has left the cache section
    responses    \* every deliver_tx answer: height, envelope, code, data

vars == <<blockTime, migHeight, height, phase, txInBlock, cache, poisoned,
          executed, queried, mempool, checking, responses>>

Response == [h : 0..MaxHeight, env : Envelope, code : DeliverCodes,
             orig : BackendAnswer \cup {None}, err : BackendAnswer \cup {None}]

TypeOK ==
    /\ blockTime \in Time \cup {None, BadTime}
    /\ migHeight \in 0..MaxHeight
    /\ height \in 0..MaxHeight
    /\ phase \in {"idle", "block", "ended"}
    /\ txInBlock \in 0..MaxTxPerBlock
    /\ cache \subseteq Envelope
    /\ poisoned \in BOOLEAN
    /\ executed \in [Envelope -> Nat]
    /\ queried \subseteq Envelope
    /\ mempool \subseteq Envelope
    /\ checking \in Envelope \cup {None}
    /\ responses \subseteq Response

(* The envelopes deliver_tx answered with Success.                         *)
Delivered == {r.env : r \in {q \in responses : q.code = 0}}

-----------------------------------------------------------------------------
(* Migrations seen by the bridge (AbciAppMigrations, many-migration).     *)

(* Mutant: is_active true only at the activation height itself.         *)
IsActiveAtExactly(h) == LegacyHeight = h

(* is_active: the migration is enabled and its block_height is reached.   *)
IsActive(h) == LegacyHeight <= h

(* _validate_time: |ts - now| < timeout, and a zero timeout rejects all.   *)
ValidateTime(ts, now, timeout) ==
    /\ timeout # 0
    /\ IF ts < now THEN now - ts < timeout ELSE ts - now < timeout

(* The time check_tx and the backend compare a timestamp against: the     *)
(* block time if begin_block recorded one, the wall clock otherwise.      *)
NowChoices == IF blockTime \in Time THEN {blockTime} ELSE Time

-----------------------------------------------------------------------------
Init ==
    /\ blockTime = None
    /\ migHeight = 0
    /\ height = 0
    /\ phase = "idle"
    /\ txInBlock = 0
    /\ cache = {}
    /\ poisoned = FALSE
    /\ executed = [e \in Envelope |-> 0]
    /\ queried = {}
    /\ mempool = {}
    /\ checking = None
    /\ responses = {}

(* Mutant: begin_block stores the header time one second late.          *)
BeginBlockOffByOne(t, hasHeader) ==
    /\ phase = "idle"
    /\ ~poisoned
    /\ height < MaxHeight
    /\ height' = height + 1
    /\ migHeight' = IF hasHeader THEN height + 1 ELSE migHeight
    /\ blockTime' = IF hasHeader /\ t \in Time THEN t + 1
                    ELSE IF hasHeader THEN t ELSE None
    /\ phase' = "block"
    /\ UNCHANGED <<txInBlock, cache, poisoned, executed, queried, mempool,
                   checking, responses>>

(* begin_block: record the header time, move the migrations to the header *)
(* height (a request without a header leaves them where they are), then   *)
(* forward abci.beginBlock to the backend.                                *)
BeginBlock(t, hasHeader) ==
    /\ phase = "idle"
    /\ ~poisoned
    /\ height < MaxHeight
    /\ height' = height + 1
    /\ migHeight' = IF hasHeader THEN height + 1 ELSE migHeight
    /\ blockTime' = IF hasHeader THEN t ELSE None
    /\ phase' = "block"
    /\ UNCHANGED <<txInBlock, cache, poisoned, executed, queried, mempool,
                   checking, responses>>

(* Mutant: check_tx does not run validate_envelope.                      *)
ValidateCodeNoCache(e) ==
    IF e \in Malformed THEN 4
    ELSE IF e \in NotMessage THEN 5
    ELSE IF poisoned THEN 6
    ELSE IF e \in Invalid THEN 10
    ELSE 0

(* The first half of do_check_tx, up to the end of the cache read-lock    *)
(* scope: the code of its first failing check, in the order of its early  *)
(* returns, or 0 when the envelope passes them all.                        *)
ValidateCode(e) ==
    IF e \in Malformed THEN 4
    ELSE IF e \in NotMessage THEN 5
    ELSE IF poisoned THEN 6
    ELSE IF e \in cache THEN 10
    ELSE IF e \in Invalid THEN 10
    ELSE 0

(* The second half of do_check_tx: the time checks against now, read      *)
(* after the cache lock was released.  (The CannotGetSystemTimeError of    *)
(* as_system_time, code 8, cannot occur for a u64 second count and is left *)
(* out.)                                                                   *)
TimeCode(e, now) ==
    IF blockTime = BadTime THEN 7
    ELSE IF ~ValidateTime(TimestampOf[e], now, Timeout) THEN 9
    ELSE 0

(* check_tx, first step: decode e and run the validator under the cache   *)
(* read lock.  A failing check answers its code and changes nothing; a    *)
(* passing one releases the lock and goes on.  Tendermint's single mempool *)
(* connection calls check_tx one request at a time.                        *)
CheckValidate(e) ==
    /\ checking = None
    /\ ValidateCode(e) = 0
    /\ checking' = e
    /\ UNCHANGED <<blockTime, migHeight, height, phase, txInBlock, cache,
                   poisoned, executed, queried, mempool, responses>>

(* check_tx, second step: read block_time, check e's timestamp against it *)
(* (or the wall clock) and answer; on Success the consensus engine keeps  *)
(* e in its mempool.  Deliver_tx may have run between the two steps.      *)
CheckTime ==
    /\ checking # None
    /\ \E now \in NowChoices :
         mempool' = IF TimeCode(checking, now) = 0 THEN mempool \cup {checking}
                                                  ELSE mempool
    /\ checking' = None
    /\ UNCHANGED <<blockTime, migHeight, height, phase, txInBlock, cache,
                   poisoned, executed, queried, responses>>

(* The part of every deliver_tx step that consensus performs: one more    *)
(* transaction of the block, and e leaves the mempool.                    *)
Include(e) ==
    /\ phase = "block"
    /\ ~poisoned
    /\ txInBlock < MaxTxPerBlock
    /\ txInBlock' = txInBlock + 1
    /\ mempool' = mempool \ {e}
    /\ UNCHANGED phase

NoData(e, code) ==
    [h |-> height, env |-> e, code |-> code, orig |-> None, err |-> None]

(* deliver_tx of an envelope that does not deserialize.                    *)
DeliverMalformed(e) ==
    /\ e \in Malformed
    /\ Include(e)
    /\ responses' = responses \cup {NoData(e, 2)}
    /\ UNCHANGED <<blockTime, migHeight, height, cache, poisoned, executed,
                   queried, checking>>

(* The answer of ManyServer::execute: an envelope that is not a valid,    *)
(* timely request for this server is rejected, any other is run by its    *)
(* module, which succeeds or fails with a domain error.                   *)
BackendAnswers(e, now) ==
    IF e \in NotMessage \cup Invalid \/ ~ValidateTime(TimestampOf[e], now, Timeout)
    THEN {"other"}
    ELSE BackendAnswer

(* deliver_tx when send_envelope fails: the request never reached the     *)
(* backend, or the backend executed it and the answer was lost.           *)
DeliverTransportError(e) ==
    /\ e \notin Malformed
    /\ Include(e)
    /\ \E now \in NowChoices, lostAfterExecution \in BOOLEAN :
         executed' = IF lostAfterExecution /\ "ok" \in BackendAnswers(e, now)
                     THEN [executed EXCEPT ![e] = @ + 1]
                     ELSE executed
    /\ responses' = responses \cup {NoData(e, 1)}
    /\ UNCHANGED <<blockTime, migHeight, height, cache, poisoned, queried,
                   checking>>

(* The legacy_error_code rewrite of an answer.                             *)
LegacyRewrite(a) == IF IsActive(migHeight) /\ a = "attr" THEN "unknown" ELSE a

(* Mutant: the response is encoded before message_executed, and an       *)
(* encoding failure returns before the envelope is recorded.              *)
RecordAnswerEncodeFirst(e, a, recordFails, encodes) ==
    LET resp == [h |-> height, env |-> e, code |-> IF encodes THEN 0 ELSE 3,
                 orig |-> a, err |-> LegacyRewrite(a)]
    IN /\ executed' = IF a = "ok" THEN [executed EXCEPT ![e] = @ + 1]
                                  ELSE executed
       /\ IF recordFails /\ encodes
          THEN /\ poisoned' = TRUE
               /\ UNCHANGED <<cache, responses>>
          ELSE /\ cache' = IF encodes THEN cache \cup {e} ELSE cache
               /\ responses' = responses \cup {resp}
               /\ UNCHANGED poisoned

(* deliver_tx when the backend answered: normalise the response (anonymous*)
(* from, no version, timestamp EPOCH; not represented), apply the legacy rewrite, take the  *)
(* cache write lock and run message_executed (its failure panics with the *)
(* lock held, which poisons it and ends the consensus connection), then   *)
(* encode the response (code 3 when that fails).                          *)
RecordAnswer(e, a, recordFails, encodes) ==
    LET resp == [h |-> height, env |-> e, code |-> IF encodes THEN 0 ELSE 3,
                 orig |-> a, err |-> LegacyRewrite(a)]
    IN /\ executed' = IF a = "ok" THEN [executed EXCEPT ![e] = @ + 1]
                                  ELSE executed
       /\ IF recordFails
          THEN /\ poisoned' = TRUE
               /\ UNCHANGED <<cache, responses>>
          ELSE /\ cache' = cache \cup {e}
               /\ responses' = responses \cup {resp}
               /\ UNCHANGED poisoned

DeliverAnswered(e) ==
    /\ e \notin Malformed
    /\ Include(e)
    /\ \E now \in NowChoices, recordFails \in BOOLEAN, encodes \in BOOLEAN :
         \E a \in BackendAnswers(e, now) : RecordAnswer(e, a, recordFails, encodes)
    /\ UNCHANGED <<blockTime, migHeight, height, queried, checking>>

(* query: an envelope that deserializes is forwarded to the backend as it *)
(* is, on the query connection, at any time; nothing checks that its      *)
(* message is read-only.  The backend runs it (a command that succeeds    *)
(* changes the backend's state) or fails, or the transport fails; the     *)
(* answer goes back to the caller only and is never recorded.             *)
Query(e) ==
    /\ e \notin Malformed
    /\ \E now \in NowChoices : \E a \in BackendAnswers(e, now) :
         queried' = IF e \in Commands /\ a = "ok" THEN queried \cup {e}
                                                 ELSE queried
    /\ UNCHANGED <<blockTime, migHeight, height, phase, txInBlock, cache,
                   poisoned, executed, mempool, checking, responses>>

(* end_block forwards abci.endBlock; commit forwards abci.commit.          *)
EndBlock ==
    /\ phase = "block"
    /\ ~poisoned
    /\ phase' = "ended"
    /\ UNCHANGED <<blockTime, migHeight, height, txInBlock, cache, poisoned,
                   executed, queried, mempool, checking, responses>>

Commit ==
    /\ phase = "ended"
    /\ ~poisoned
    /\ phase' = "idle"
    /\ txInBlock' = 0
    /\ UNCHANGED <<blockTime, migHeight, height, cache, poisoned, executed,
                   queried, mempool, checking, responses>>

Next ==
    \/ \E t \in Time \cup {None, BadTime}, hasHeader \in BOOLEAN : BeginBlock(t, hasHeader)
    \/ \E e \in Envelope :
         \/ CheckValidate(e)
         \/ DeliverMalformed(e)
         \/ DeliverTransportError(e)
         \/ DeliverAnswered(e)
         \/ Query(e)
    \/ CheckTime
    \/ EndBlock
    \/ Commit

Spec == Init /\ [][Next]_vars

-----------------------------------------------------------------------------
(* Properties.                                                             *)

(* A resubmitted envelope is refused by the cache: a check_tx that starts *)
(* after deliver_tx answered Success for e never gets past              *)
(* validate_envelope (deliver_tx records e with message_executed before it *)
(* answers, and a panic there poisons the lock, which check_tx refuses).  *)
(* A check already past the cache section when deliver_tx runs is not     *)
(* covered: it goes on to admit e.                                        *)
ResubmitRejected ==
    [][checking = None /\ checking' # None => checking' \notin Delivered]_vars

(* Every envelope the backend executed is in the cache, unless deliver_tx *)
(* reported a TransportRequestError for it (the answer was lost after the *)
(* backend ran it) or the message_executed panic poisoned the cache.      *)
CacheCoversExecution ==
    \A e \in Envelope :
        executed[e] > 0 =>
            \/ e \in cache
            \/ poisoned
            \/ \E r \in responses : r.env = e /\ r.code = 1

(* The legacy_error_code rewrite is monotone in the block height: once an *)
(* attribute-specific error has been rewritten to Unknown in some block,  *)
(* it is rewritten in every later block too.                              *)
LegacyRewriteMonotone ==
    \A r1, r2 \in responses :
        /\ r1.orig = "attr" /\ r2.orig = "attr"
        /\ r1.h <= r2.h /\ r1.err = "unknown"
        => r2.err = "unknown"

(* The query path leaves the backend's state alone (spec: query forwards *)
(* to read-only backend endpoints, no state mutation): no command is ever *)
(* executed on behalf of a query.                                         *)
QueryReadOnly == queried = {}

(* The request-validator cache makes the replicated state machine execute *)
(* each envelope at most once (spec: an at-most-once admission layer      *)
(* shared between check and deliver).                                     *)
AtMostOnceExecution == \A e \in Envelope : executed[e] <= 1
=============================================================================
