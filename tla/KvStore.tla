------------------------------ MODULE KvStore ------------------------------
(***************************************************************************)
(* The storage of the key-value store (src/many-kvstore/src/storage.rs).  *)
(*                                                                         *)
(* The merk tree is two stores: work, the in-memory tree that apply()     *)
(* stages writes into and get() reads, and disk, what the last successful *)
(* commit made durable.  A store holds the data keys (prefix "s"), their  *)
(* ACL metadata (prefix "a"), the event log, and the reserved keys        *)
(* /latest_event_id, /height and /config/subresource_id.  The process     *)
(* also keeps latest_event_id and next_subresource in memory.  In          *)
(* blockchain mode the batch is committed only by commit(); otherwise     *)
(* every put, disable and transfer commits at once.  A crash (or a panic  *)
(* of an unwrap) loses work and the in-memory counters; load() rebuilds   *)
(* them from disk.                                                         *)
(*                                                                         *)
(* An event is the serial number of its log_event call, so that two       *)
(* events are never equal; the subresource ids a store has handed out are *)
(* kept in the store as a history field (handed).                          *)
(***************************************************************************)
EXTENDS Naturals, FiniteSets

CONSTANTS
    Keys,            \* the keys clients write
    Values,          \* the values clients write
    Owners,          \* the addresses that own keys
    InitialAcl,      \* the ACL map passed to KvStoreStorage::new
    Absent,          \* a key that is not in the store
    Blockchain,      \* KvStoreStorage.blockchain
    MaxEvents,       \* bound on the number of log_event calls
    MaxHeight,       \* bound on the number of commits
    MaxSubresource   \* bound on the number of new_subresource_id calls

(* KvStoreMetadata.disabled: None, Some(Left(false)), Some(Left(true)) or *)
(* Some(Right(reason)).                                                   *)
Disabled == {"none", "false", "true", "reason"}

Meta == [owner : Owners, disabled : Disabled]

EventIds == 1..MaxEvents

ASSUME KvAssumption ==
    /\ Absent \notin Values
    /\ Absent \notin EventIds
    /\ InitialAcl \in [Keys -> Meta \cup {Absent}]
    /\ Blockchain \in BOOLEAN
    /\ MaxEvents \in Nat /\ MaxHeight \in Nat /\ MaxSubresource \in Nat

Store == [data : [Keys -> Values \cup {Absent}],
          acl : [Keys -> Meta \cup {Absent}],
          events : [EventIds -> EventIds \cup {Absent}],
          latest : 0..MaxEvents,
          height : 0..MaxHeight,
          sub : 0..MaxSubresource,
          handed : SUBSET (0..MaxSubresource - 1)]

VARIABLES
    work,             \* the in-memory merk tree, staged writes included
    disk,             \* the committed merk tree
    latestEventId,    \* KvStoreStorage.latest_event_id
    nextSubresource,  \* KvStoreStorage.next_subresource
    nLogged           \* how many log_event calls there were (serials)

vars == <<work, disk, latestEventId, nextSubresource, nLogged>>

TypeOK ==
    /\ work \in Store
    /\ disk \in Store
    /\ latestEventId \in 0..MaxEvents
    /\ nextSubresource \in 0..MaxSubresource
    /\ nLogged \in 0..MaxEvents

(* get: a key whose metadata marks it disabled (anything but None or      *)
(* Left(false)) is an error; otherwise the value under the data prefix.   *)
Get(s, k) ==
    IF s.acl[k] # Absent /\ s.acl[k].disabled \in {"true", "reason"}
    THEN "disabled"
    ELSE s.data[k]

(* EventId + 1u32: the addition of the big-endian integers.               *)
NextEventId(id) == id + 1

(* log_event: the next event id, the event staged under it.               *)
LogEvent(s, id) == [s EXCEPT !.events[id] = nLogged + 1]

(* The tail of put, disable and transfer: outside blockchain mode the     *)
(* tree is committed at once (the commit may fail, leaving the writes     *)
(* staged and the error returned to the caller).                          *)
CommitIfImmediate(w) ==
    \E ok \in BOOLEAN :
        disk' = IF ~Blockchain /\ ok THEN w ELSE disk

(* An ACL update followed by its event: the shape of put, disable and     *)
(* transfer, given the tree after the ACL (and data) writes.              *)
Mutate(w) ==
    /\ nLogged < MaxEvents
    /\ LET id == NextEventId(latestEventId)
           w2 == LogEvent(w, id)
       IN /\ work' = w2
          /\ latestEventId' = id
          /\ CommitIfImmediate(w2)
    /\ nLogged' = nLogged + 1
    /\ UNCHANGED nextSubresource

(* put: metadata and value in one batch, a KvStorePut event.              *)
Put(k, v, m) == Mutate([work EXCEPT !.acl[k] = m, !.data[k] = v])

(* disable: the new metadata, a KvStoreDisable event.                     *)
Disable(k, m) == Mutate([work EXCEPT !.acl[k] = m])

(* transfer: the metadata with the new owner, a KvStoreTransfer event.    *)
Transfer(k, m) == Mutate([work EXCEPT !.acl[k] = m])

(* Mutant: the new id is handed out after the increment.                  *)
NewSubresourceIdAfterIncrement ==
    /\ nextSubresource < MaxSubresource
    /\ nextSubresource' = nextSubresource + 1
    /\ work' = [work EXCEPT !.sub = nextSubresource + 1,
                            !.handed = @ \cup {nextSubresource + 1}]
    /\ UNCHANGED <<disk, latestEventId, nLogged>>

(* Mutant: /config/subresource_id is written with the id handed out.      *)
NewSubresourceIdStoresCurrent ==
    /\ nextSubresource < MaxSubresource
    /\ nextSubresource' = nextSubresource + 1
    /\ work' = [work EXCEPT !.sub = nextSubresource,
                            !.handed = @ \cup {nextSubresource}]
    /\ UNCHANGED <<disk, latestEventId, nLogged>>

(* new_subresource_id: hand out next_subresource, increment it and stage *)
(* the incremented value under /config/subresource_id.                    *)
NewSubresourceId ==
    /\ nextSubresource < MaxSubresource
    /\ nextSubresource' = nextSubresource + 1
    /\ work' = [work EXCEPT !.sub = nextSubresource + 1,
                            !.handed = @ \cup {nextSubresource}]
    /\ UNCHANGED <<disk, latestEventId, nLogged>>

(* Mutant: commit does not stage /latest_event_id.                        *)
CommitNoLatest ==
    /\ work.height < MaxHeight
    /\ LET w == [work EXCEPT !.height = @ + 1]
       IN work' = w /\ disk' = w
    /\ UNCHANGED <<latestEventId, nextSubresource, nLogged>>

(* commit: inc_height stages /height + 1, /latest_event_id is staged with *)
(* the in-memory id, and the tree is committed (a failure panics).        *)
Commit ==
    /\ work.height < MaxHeight
    /\ LET w == [work EXCEPT !.height = @ + 1, !.latest = latestEventId]
       IN work' = w /\ disk' = w
    /\ UNCHANGED <<latestEventId, nextSubresource, nLogged>>

(* Mutant: load starts the event ids again from EventId::from([0]).       *)
RestartEventIdFromGenesis ==
    /\ work' = disk
    /\ latestEventId' = 0
    /\ nextSubresource' = disk.sub
    /\ UNCHANGED <<disk, nLogged>>

(* A crash and load: the tree is reopened from disk, latest_event_id and  *)
(* next_subresource are read from their reserved keys.                    *)
Restart ==
    /\ work' = disk
    /\ latestEventId' = disk.latest
    /\ nextSubresource' = disk.sub
    /\ UNCHANGED <<disk, nLogged>>

(* new: the identity and the ACL map, /latest_event_id = [0], committed.  *)
Genesis ==
    [data |-> [k \in Keys |-> Absent], acl |-> InitialAcl,
     events |-> [i \in EventIds |-> Absent], latest |-> 0, height |-> 0,
     sub |-> 0, handed |-> {}]

Init ==
    /\ work = Genesis
    /\ disk = Genesis
    /\ latestEventId = 0
    /\ nextSubresource = 0
    /\ nLogged = 0

Next ==
    \/ \E k \in Keys, v \in Values, o \in Owners, d \in {"none", "false"} :
         Put(k, v, [owner |-> o, disabled |-> d])
    \/ \E k \in Keys, o \in Owners, d \in {"true", "reason"} :
         Disable(k, [owner |-> o, disabled |-> d])
    \/ \E k \in Keys, m \in Meta : Transfer(k, m)
    \/ NewSubresourceId
    \/ Commit
    \/ Restart

Spec == Init /\ [][Next]_vars

-----------------------------------------------------------------------------
(* Properties.                                                             *)

(* The durable /latest_event_id is at least the id of every durable       *)
(* event, so that the ids load() resumes from are all fresh.              *)
StoredCounterCoversEvents ==
    \A i \in EventIds : disk.events[i] # Absent => i <= disk.latest

(* A subresource id whose handing out became durable is never handed out  *)
(* again, whatever crashes happen: next_subresource stays above it.       *)
SubresourceNeverReissued == \A i \in disk.handed : i < nextSubresource

(* What a reader of the reopened store sees: the durable events in id     *)
(* order, and get() of every key.                                         *)
DurableLog ==
    [i \in 1..Cardinality({j \in EventIds : disk.events[j] # Absent}) |->
        disk.events[i]]

DurableView == [k \in Keys |-> Get(disk, k)]

ABS == INSTANCE AppendOnlyStore
         WITH log <- DurableLog, view <- DurableView,
              Event <- EventIds, View <- Values \cup {Absent, "disabled"}

(* The store implements the append-only store: the durable event log only *)
(* grows, across commits and crashes, and a durable change of what get()  *)
(* returns always comes with a durable event.                             *)
Refinement == ABS!Spec
=============================================================================
