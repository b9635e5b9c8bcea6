------------------------------ MODULE EventId ------------------------------
(***************************************************************************)
(* Event ids (src/many-modules/src/_4_events.rs) as the ledger assigns    *)
(* them (src/many-ledger/src/storage/abci.rs).                             *)
(*                                                                         *)
(* An EventId is a byte string; its order is the derived Ord of the byte  *)
(* vector, i.e. lexicographic.  Addition goes through BigUint and back    *)
(* with to_bytes_be, the minimal big-endian encoding; From<u64> gives the *)
(* eight bytes of u64::to_be_bytes.  log_event (not under src/) adds one  *)
(* to the latest id; the ledger's commit resets the latest id to          *)
(* EventId::from(height << HEIGHT_EVENTID_SHIFT), height being the value  *)
(* inc_height returns: the height before the increment, as                *)
(* KvStoreStorage::inc_height returns it.                                 *)
(***************************************************************************)
EXTENDS Naturals, Sequences

CONSTANTS
    Shift,        \* HEIGHT_EVENTID_SHIFT
    MaxHeight,    \* bound on the number of commits
    MaxPerBlock   \* bound on the number of events logged in one block

Byte == 0..255

(* BigUint::to_bytes_be: the minimal big-endian bytes, [0] for zero.      *)
MinimalBE[n \in Nat] ==
    IF n < 256 THEN <<n>> ELSE Append(MinimalBE[n \div 256], n % 256)

(* The w low bytes of n, big-endian: u64::to_be_bytes when w = 8.         *)
FixedBE[w \in Nat, n \in Nat] ==
    IF w = 0 THEN <<>> ELSE Append(FixedBE[w - 1, n \div 256], n % 256)

(* BigUint::from_bytes_be.                                                 *)
ValueBE[b \in Seq(Byte)] ==
    IF b = <<>> THEN 0 ELSE ValueBE[SubSeq(b, 1, Len(b) - 1)] * 256 + b[Len(b)]

(* impl From<u64> for EventId.                                             *)
FromU64(n) == FixedBE[8, n]

(* impl Add<u32> for EventId: through BigUint, back by to_bytes_be.       *)
AddU32(id, r) == MinimalBE[ValueBE[id] + r]

(* The derived Ord of EventId(ByteVec): lexicographic on the bytes.       *)
LexLess(a, b) ==
    \/ Len(a) < Len(b) /\ a = SubSeq(b, 1, Len(a))
    \/ \E i \in 1..Len(a) :
          /\ i <= Len(b)
          /\ SubSeq(a, 1, i - 1) = SubSeq(b, 1, i - 1)
          /\ a[i] < b[i]

VARIABLES
    height,     \* the stored /height
    latestTid,  \* LedgerStorage.latest_tid
    inBlock,    \* events logged in the current block
    prevId,     \* the id log_event assigned before the last one (<<>>: none)
    lastId      \* the last id log_event assigned (<<>>: none)

vars == <<height, latestTid, inBlock, prevId, lastId>>

TypeOK ==
    /\ height \in 0..MaxHeight
    /\ latestTid \in Seq(Byte)
    /\ inBlock \in 0..MaxPerBlock
    /\ prevId \in Seq(Byte)
    /\ lastId \in Seq(Byte)

(* Initialization seeds /latest_event_id = EventId::from([0]).            *)
Init ==
    /\ height = 0
    /\ latestTid = <<0>>
    /\ inBlock = 0
    /\ prevId = <<>>
    /\ lastId = <<>>

(* log_event: the next id is the latest plus one.                          *)
LogEvent ==
    /\ inBlock < MaxPerBlock
    /\ latestTid' = AddU32(latestTid, 1)
    /\ prevId' = lastId
    /\ lastId' = latestTid'
    /\ inBlock' = inBlock + 1
    /\ UNCHANGED height

(* LedgerStorage::commit: height = inc_height(), the store is committed,  *)
(* then latest_tid = EventId::from(height << HEIGHT_EVENTID_SHIFT).       *)
Commit ==
    /\ height < MaxHeight
    /\ height' = height + 1
    /\ latestTid' = FromU64(height * 2 ^ Shift)
    /\ inBlock' = 0
    /\ UNCHANGED <<prevId, lastId>>

Next == LogEvent \/ Commit

Spec == Init /\ [][Next]_vars

-----------------------------------------------------------------------------
(* Properties.                                                             *)

(* Spec, event log invariants 3 and 4: event ids increase over the life  *)
(* of the chain; every id is larger than the one logged before it, in its *)
(* block or in an earlier one.                                            *)
IdsIncreaseNumerically ==
    prevId # <<>> => ValueBE[prevId] < ValueBE[lastId]

(* EventId's order agrees with the integer order of the ids: of two      *)
(* successive ids, the larger integer is the larger EventId (spec: an id  *)
(* is a big-endian integer and ids increase lexicographically on that     *)
(* encoding, which is also the order of the store's keys).                *)
OrdMatchesValue ==
    prevId # <<>> /\ ValueBE[prevId] < ValueBE[lastId] => LexLess(prevId, lastId)
=============================================================================
