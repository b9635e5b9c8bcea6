--------------------------- MODULE KvStoreProofs ---------------------------
(* Proofs about the key-value store's storage: the types of the state,    *)
(* that no subresource id is handed out twice, and, in blockchain mode,   *)
(* that the durable /latest_event_id covers every durable event.          *)
EXTENDS KvStore, FiniteSetTheorems, SequenceTheorems, TLAPS

USE KvAssumption

-----------------------------------------------------------------------------
(* TypeOK is not inductive alone: log_event stages its event under       *)
(* latest_event_id + 1, which is an EventId of the instance only because  *)
(* no id in memory or in either tree runs ahead of the log_event calls.   *)
TypeInv ==
    /\ TypeOK
    /\ latestEventId <= nLogged
    /\ work.latest <= nLogged
    /\ disk.latest <= nLogged

(* The ids a tree has handed out are below its /config/subresource_id,   *)
(* the in-memory counter is the working tree's, and no crash takes the   *)
(* counter below the durable one: load() reads it back from disk.         *)
SubInv ==
    /\ TypeInv
    /\ work.sub = nextSubresource
    /\ disk.sub <= nextSubresource
    /\ \A i \in work.handed : i < work.sub
    /\ \A i \in disk.handed : i < disk.sub

(* In blockchain mode the working tree's events are all at or below the  *)
(* in-memory latest_event_id, and the disk's at or below its own          *)
(* /latest_event_id: commit() writes the id with the events, and load()   *)
(* restores both from the same tree.                                       *)
CounterInv ==
    /\ TypeInv
    /\ \A i \in EventIds : work.events[i] # Absent => i <= latestEventId
    /\ StoredCounterCoversEvents

-----------------------------------------------------------------------------
(* The writes of put, disable and transfer keep a tree a Store and touch  *)
(* none of its counters.                                                   *)
LEMMA AclWriteType ==
    ASSUME NEW s \in Store, NEW k \in Keys, NEW m \in Meta \cup {Absent}
    PROVE  /\ [s EXCEPT !.acl[k] = m] \in Store
           /\ [s EXCEPT !.acl[k] = m].latest = s.latest
           /\ [s EXCEPT !.acl[k] = m].events = s.events
           /\ [s EXCEPT !.acl[k] = m].sub = s.sub
           /\ [s EXCEPT !.acl[k] = m].handed = s.handed
BY DEF Store

(* log_event keeps a tree a Store and stages exactly the one event.       *)
LEMMA LogEventType ==
    ASSUME NEW s \in Store, NEW id \in EventIds, nLogged + 1 \in EventIds
    PROVE  /\ LogEvent(s, id) \in Store
           /\ LogEvent(s, id).events = [s.events EXCEPT ![id] = nLogged + 1]
           /\ LogEvent(s, id).latest = s.latest
           /\ LogEvent(s, id).sub = s.sub
           /\ LogEvent(s, id).handed = s.handed
BY DEF LogEvent, Store

(* new_subresource_id's write and commit()'s writes keep a tree a Store.  *)
LEMMA SubWriteType ==
    ASSUME NEW s \in Store, NEW n \in 0..MaxSubresource - 1
    PROVE  /\ [s EXCEPT !.sub = n + 1, !.handed = @ \cup {n}] \in Store
           /\ [s EXCEPT !.sub = n + 1, !.handed = @ \cup {n}].latest = s.latest
           /\ [s EXCEPT !.sub = n + 1, !.handed = @ \cup {n}].events = s.events
           /\ [s EXCEPT !.sub = n + 1, !.handed = @ \cup {n}].sub = n + 1
           /\ [s EXCEPT !.sub = n + 1, !.handed = @ \cup {n}].handed = s.handed \cup {n}
<1>1. n + 1 \in 0..MaxSubresource /\ s.handed \cup {n} \in SUBSET (0..MaxSubresource - 1)
  BY DEF Store
<1> QED
  BY <1>1 DEF Store

LEMMA CommitWriteType ==
    ASSUME NEW s \in Store, s.height < MaxHeight, NEW l \in 0..MaxEvents
    PROVE  /\ [s EXCEPT !.height = @ + 1, !.latest = l] \in Store
           /\ [s EXCEPT !.height = @ + 1, !.latest = l].latest = l
           /\ [s EXCEPT !.height = @ + 1, !.latest = l].events = s.events
           /\ [s EXCEPT !.height = @ + 1, !.latest = l].sub = s.sub
           /\ [s EXCEPT !.height = @ + 1, !.latest = l].handed = s.handed
<1>1. s.height + 1 \in 0..MaxHeight
  BY DEF Store
<1> QED
  BY <1>1 DEF Store

(* The shape of put, disable and transfer, for the tree w after their     *)
(* ACL and data writes.                                                    *)
LEMMA MutateFacts ==
    ASSUME TypeInv, NEW w \in Store, Mutate(w)
    PROVE  LET id == latestEventId + 1 IN
           /\ id \in EventIds /\ nLogged + 1 \in EventIds
           /\ work' = LogEvent(w, id)
           /\ latestEventId' = id /\ nLogged' = nLogged + 1
           /\ disk' \in {disk, LogEvent(w, id)}
           /\ Blockchain => disk' = disk
           /\ UNCHANGED nextSubresource
<1>1. latestEventId \in Nat /\ nLogged \in Nat /\ MaxEvents \in Nat
      /\ latestEventId <= nLogged /\ nLogged < MaxEvents
  BY DEF TypeInv, TypeOK, Mutate
<1> QED
  BY <1>1 DEF Mutate, NextEventId, CommitIfImmediate, EventIds

LEMMA MutateType ==
    ASSUME TypeInv, NEW w \in Store, w.latest = work.latest, Mutate(w)
    PROVE  TypeInv'
<1> DEFINE id == latestEventId + 1
<1>1. /\ id \in EventIds /\ nLogged + 1 \in EventIds
      /\ work' = LogEvent(w, id)
      /\ latestEventId' = id /\ nLogged' = nLogged + 1
      /\ disk' \in {disk, LogEvent(w, id)}
      /\ UNCHANGED nextSubresource
  BY MutateFacts
<1>2. LogEvent(w, id) \in Store /\ LogEvent(w, id).latest = w.latest
  BY <1>1, LogEventType
<1>3. /\ latestEventId \in Nat /\ nLogged \in Nat /\ latestEventId <= nLogged
      /\ work.latest \in Nat /\ disk.latest \in Nat
      /\ work.latest <= nLogged /\ disk.latest <= nLogged
      /\ nextSubresource \in 0..MaxSubresource
  BY DEF TypeInv, TypeOK, Store
<1>4. work' \in Store /\ work'.latest <= nLogged'
  BY <1>1, <1>2, <1>3
<1>6. disk' \in Store /\ disk'.latest <= nLogged'
  <2>1. CASE disk' = disk
    BY <1>1, <1>3, <2>1 DEF TypeInv, TypeOK
  <2>2. CASE disk' = LogEvent(w, id)
    BY <1>1, <1>2, <1>3, <2>2
  <2> QED
    BY <1>1, <2>1, <2>2
<1>5. /\ latestEventId' \in 0..MaxEvents /\ nLogged' \in 0..MaxEvents
      /\ latestEventId' <= nLogged'
      /\ nextSubresource' \in 0..MaxSubresource
  BY <1>1, <1>3 DEF EventIds
<1> QED
  BY <1>4, <1>5, <1>6 DEF TypeInv, TypeOK

LEMMA TypeInvInit == Init => TypeInv
BY DEF Init, TypeInv, TypeOK, Genesis, Store, EventIds

LEMMA TypeInvStep == TypeInv /\ [Next]_vars => TypeInv'
<1> SUFFICES ASSUME TypeInv, [Next]_vars PROVE TypeInv'
  OBVIOUS
<1>0. work \in Store /\ disk \in Store
  BY DEF TypeInv, TypeOK
<1>1. ASSUME NEW k \in Keys, NEW v \in Values, NEW o \in Owners,
             NEW d \in {"none", "false"},
             Put(k, v, [owner |-> o, disabled |-> d])
      PROVE TypeInv'
  <2> DEFINE m == [owner |-> o, disabled |-> d]
             w == [work EXCEPT !.acl[k] = m, !.data[k] = v]
  <2>1. m \in Meta
    BY DEF Meta, Disabled
  <2>2. /\ w \in Store /\ w.latest = work.latest /\ w.events = work.events
        /\ w.sub = work.sub /\ w.handed = work.handed
    <3>1. m \in Meta \cup {Absent} /\ v \in Values \cup {Absent}
      BY <2>1
    <3> QED
      BY <1>0, <3>1 DEF Store, w
  <2>3. Mutate(w)
    BY <1>1 DEF Put
  <2> QED
    BY <2>2, <2>3, MutateType
<1>2. ASSUME NEW k \in Keys, NEW o \in Owners, NEW d \in {"true", "reason"},
             Disable(k, [owner |-> o, disabled |-> d])
      PROVE TypeInv'
  <2> DEFINE m == [owner |-> o, disabled |-> d]
             w == [work EXCEPT !.acl[k] = m]
  <2>1. m \in Meta
    BY DEF Meta, Disabled
  <2>2. w \in Store /\ w.latest = work.latest
    BY <1>0, <2>1, AclWriteType
  <2>3. Mutate(w)
    BY <1>2 DEF Disable
  <2> QED
    BY <2>2, <2>3, MutateType
<1>3. ASSUME NEW k \in Keys, NEW m \in Meta, Transfer(k, m) PROVE TypeInv'
  <2> DEFINE w == [work EXCEPT !.acl[k] = m]
  <2>2. w \in Store /\ w.latest = work.latest
    BY <1>0, AclWriteType
  <2>3. Mutate(w)
    BY <1>3 DEF Transfer
  <2> QED
    BY <2>2, <2>3, MutateType
<1>4. CASE NewSubresourceId
  <2>1. nextSubresource \in 0..MaxSubresource - 1
    BY <1>4 DEF NewSubresourceId, TypeInv, TypeOK
  <2>2. work' \in Store /\ work'.latest = work.latest
    BY <1>0, <1>4, <2>1, SubWriteType DEF NewSubresourceId
  <2>3. nextSubresource' \in 0..MaxSubresource
    BY <1>4, <2>1 DEF NewSubresourceId
  <2> QED
    BY <1>4, <2>2, <2>3 DEF NewSubresourceId, TypeInv, TypeOK
<1>5. CASE Commit
  <2>1. latestEventId \in 0..MaxEvents /\ work.height < MaxHeight
    BY <1>5 DEF Commit, TypeInv, TypeOK
  <2>2. work' \in Store /\ work'.latest = latestEventId /\ disk' = work'
    BY <1>0, <1>5, <2>1, CommitWriteType DEF Commit
  <2> QED
    BY <1>5, <2>2 DEF Commit, TypeInv, TypeOK
<1>6. CASE Restart
  BY <1>0, <1>6 DEF Restart, TypeInv, TypeOK, Store
<1>7. CASE UNCHANGED vars
  BY <1>7 DEF vars, TypeInv, TypeOK
<1> QED
  BY <1>1, <1>2, <1>3, <1>4, <1>5, <1>6, <1>7 DEF Next

(* Every state of the store has the types TypeOK states.                  *)
THEOREM TypeCorrect == Spec => []TypeOK
<1>1. TypeInv => TypeOK
  BY DEF TypeInv
<1> QED
  BY TypeInvInit, TypeInvStep, <1>1, PTL DEF Spec

-----------------------------------------------------------------------------
(* Put, disable and transfer are one step: log_event on the tree after    *)
(* the ACL (and data) writes, which leave the counters alone.             *)
MutateStep ==
    \E w \in Store :
        /\ w.latest = work.latest /\ w.events = work.events
        /\ w.sub = work.sub /\ w.handed = work.handed
        /\ Mutate(w)

LEMMA NextCases ==
    ASSUME TypeInv, [Next]_vars
    PROVE  \/ MutateStep
           \/ NewSubresourceId \/ Commit \/ Restart \/ UNCHANGED vars
<1>0. work \in Store
  BY DEF TypeInv, TypeOK
<1>1. ASSUME NEW k \in Keys, NEW v \in Values, NEW o \in Owners,
             NEW d \in {"none", "false"},
             Put(k, v, [owner |-> o, disabled |-> d])
      PROVE MutateStep
  <2> DEFINE m == [owner |-> o, disabled |-> d]
             w == [work EXCEPT !.acl[k] = m, !.data[k] = v]
  <2>1. m \in Meta \cup {Absent} /\ v \in Values \cup {Absent}
    BY DEF Meta, Disabled
  <2>2. /\ w \in Store /\ w.latest = work.latest /\ w.events = work.events
        /\ w.sub = work.sub /\ w.handed = work.handed
    BY <1>0, <2>1 DEF Store, w
  <2>3. Mutate(w)
    BY <1>1 DEF Put
  <2> QED
    BY <2>2, <2>3, Zenon DEF MutateStep
<1>2. ASSUME NEW k \in Keys, NEW m \in Meta, 
             \/ Disable(k, m)
             \/ Transfer(k, m)
      PROVE MutateStep
  <2> DEFINE w == [work EXCEPT !.acl[k] = m]
  <2>2. /\ w \in Store /\ w.latest = work.latest /\ w.events = work.events
        /\ w.sub = work.sub /\ w.handed = work.handed
    BY <1>0, AclWriteType
  <2>3. Mutate(w)
    BY <1>2 DEF Disable, Transfer
  <2> QED
    BY <2>2, <2>3, Zenon DEF MutateStep
<1>3. ASSUME NEW k \in Keys, NEW o \in Owners, NEW d \in {"true", "reason"},
             Disable(k, [owner |-> o, disabled |-> d])
      PROVE MutateStep
  <2>1. [owner |-> o, disabled |-> d] \in Meta
    BY DEF Meta, Disabled
  <2> QED
    BY <1>2, <1>3, <2>1
<1> QED
  BY <1>1, <1>2, <1>3 DEF Next

(* The tree a put, disable or transfer leaves behind, with the counters   *)
(* and the history of the tree it started from.                            *)
LEMMA MutateTree ==
    ASSUME TypeInv, MutateStep
    PROVE  \E w \in Store :
              /\ w.events = work.events /\ w.sub = work.sub
              /\ w.handed = work.handed /\ w.latest = work.latest
              /\ latestEventId' = latestEventId + 1
              /\ latestEventId + 1 \in EventIds /\ nLogged + 1 \in EventIds
              /\ work' = LogEvent(w, latestEventId + 1)
              /\ LogEvent(w, latestEventId + 1).events
                    = [work.events EXCEPT ![latestEventId + 1] = nLogged + 1]
              /\ LogEvent(w, latestEventId + 1).sub = work.sub
              /\ LogEvent(w, latestEventId + 1).handed = work.handed
              /\ disk' \in {disk, LogEvent(w, latestEventId + 1)}
              /\ Blockchain => disk' = disk
              /\ UNCHANGED nextSubresource
<1>1. PICK w \in Store : /\ w.latest = work.latest /\ w.events = work.events
                         /\ w.sub = work.sub /\ w.handed = work.handed
                         /\ Mutate(w)
  BY DEF MutateStep
<1>2. /\ latestEventId + 1 \in EventIds /\ nLogged + 1 \in EventIds
      /\ work' = LogEvent(w, latestEventId + 1)
      /\ latestEventId' = latestEventId + 1
      /\ disk' \in {disk, LogEvent(w, latestEventId + 1)}
      /\ Blockchain => disk' = disk
      /\ UNCHANGED nextSubresource
  BY <1>1, MutateFacts
<1>3. /\ LogEvent(w, latestEventId + 1).events
           = [w.events EXCEPT ![latestEventId + 1] = nLogged + 1]
      /\ LogEvent(w, latestEventId + 1).sub = w.sub
      /\ LogEvent(w, latestEventId + 1).handed = w.handed
  BY <1>2, LogEventType
<1> QED
  BY <1>1, <1>2, <1>3

-----------------------------------------------------------------------------
LEMMA SubInit == Init => SubInv
BY TypeInvInit DEF Init, SubInv, Genesis

LEMMA SubStep == SubInv /\ [Next]_vars => SubInv'
<1> SUFFICES ASSUME SubInv, [Next]_vars
             PROVE  /\ work'.sub = nextSubresource'
                    /\ disk'.sub <= nextSubresource'
                    /\ \A i \in work'.handed : i < work'.sub
                    /\ \A i \in disk'.handed : i < disk'.sub
  BY TypeInvStep DEF SubInv
<1>0. /\ TypeInv
      /\ work.sub = nextSubresource /\ disk.sub <= nextSubresource
      /\ \A i \in work.handed : i < work.sub
      /\ \A i \in disk.handed : i < disk.sub
      /\ work \in Store /\ disk \in Store
      /\ nextSubresource \in Nat /\ disk.sub \in Nat
  BY DEF SubInv, TypeInv, TypeOK, Store
<1>1. CASE MutateStep
  <2>1. PICK w \in Store :
              /\ w.events = work.events /\ w.sub = work.sub
              /\ w.handed = work.handed /\ w.latest = work.latest
              /\ work' = LogEvent(w, latestEventId + 1)
              /\ LogEvent(w, latestEventId + 1).sub = work.sub
              /\ LogEvent(w, latestEventId + 1).handed = work.handed
              /\ disk' \in {disk, LogEvent(w, latestEventId + 1)}
              /\ UNCHANGED nextSubresource
    BY <1>0, <1>1, MutateTree
  <2>2. CASE disk' = disk
    BY <1>0, <2>1, <2>2
  <2>3. CASE disk' = LogEvent(w, latestEventId + 1)
    BY <1>0, <2>1, <2>3
  <2> QED
    BY <2>1, <2>2, <2>3
<1>2. CASE NewSubresourceId
  <2>1. nextSubresource \in 0..MaxSubresource - 1
    BY <1>0, <1>2 DEF NewSubresourceId
  <2>2. /\ work'.sub = nextSubresource + 1
        /\ work'.handed = work.handed \cup {nextSubresource}
    BY <1>0, <1>2, <2>1, SubWriteType DEF NewSubresourceId
  <2>3. work.handed \subseteq Nat /\ disk.handed \subseteq Nat
    BY <1>0 DEF Store
  <2>4. UNCHANGED disk /\ nextSubresource' = nextSubresource + 1
    BY <1>2 DEF NewSubresourceId
  <2> QED
    BY <1>0, <2>1, <2>2, <2>3, <2>4
<1>3. CASE Commit
  <2>1. latestEventId \in 0..MaxEvents /\ work.height < MaxHeight
    BY <1>0, <1>3 DEF Commit, TypeInv, TypeOK
  <2>2. /\ work'.sub = work.sub /\ work'.handed = work.handed /\ disk' = work'
    BY <1>0, <1>3, <2>1, CommitWriteType DEF Commit
  <2> QED
    BY <1>0, <1>3, <2>2 DEF Commit
<1>4. CASE Restart
  BY <1>0, <1>4 DEF Restart
<1>5. CASE UNCHANGED vars
  BY <1>0, <1>5 DEF vars
<1> QED
  BY <1>0, <1>1, <1>2, <1>3, <1>4, <1>5, NextCases

(* A subresource id whose handing out was committed is never handed out  *)
(* again: new_subresource_id's counter is the working tree's              *)
(* /config/subresource_id, a commit stores it with the ids, and load()   *)
(* resumes from the stored value.                                         *)
THEOREM SubresourcesUnique == Spec => []SubresourceNeverReissued
<1>1. SubInv => SubresourceNeverReissued
  <2> SUFFICES ASSUME SubInv, NEW i \in disk.handed PROVE i < nextSubresource
    BY DEF SubresourceNeverReissued
  <2>1. i < disk.sub /\ disk.sub <= nextSubresource
        /\ disk.sub \in Nat /\ nextSubresource \in Nat /\ i \in Nat
    BY DEF SubInv, TypeInv, TypeOK, Store
  <2> QED
    BY <2>1
<1> QED
  BY SubInit, SubStep, <1>1, PTL DEF Spec

-----------------------------------------------------------------------------
LEMMA CounterInit == Init => CounterInv
BY TypeInvInit DEF Init, CounterInv, Genesis, StoredCounterCoversEvents

LEMMA CounterStep ==
    ASSUME Blockchain = TRUE PROVE CounterInv /\ [Next]_vars => CounterInv'
<1> SUFFICES ASSUME CounterInv, [Next]_vars
             PROVE  /\ \A i \in EventIds : work'.events[i] # Absent => i <= latestEventId'
                    /\ \A i \in EventIds : disk'.events[i] # Absent => i <= disk'.latest
  BY TypeInvStep DEF CounterInv, StoredCounterCoversEvents
<1>0. /\ TypeInv
      /\ \A i \in EventIds : work.events[i] # Absent => i <= latestEventId
      /\ \A i \in EventIds : disk.events[i] # Absent => i <= disk.latest
      /\ work \in Store /\ disk \in Store
      /\ latestEventId \in Nat /\ EventIds \subseteq Nat
      /\ work.events \in [EventIds -> EventIds \cup {Absent}]
  <2>1. /\ TypeInv
        /\ \A i \in EventIds : work.events[i] # Absent => i <= latestEventId
        /\ \A i \in EventIds : disk.events[i] # Absent => i <= disk.latest
    BY DEF CounterInv, StoredCounterCoversEvents
  <2>2. work \in Store /\ disk \in Store /\ latestEventId \in Nat
    BY <2>1 DEF TypeInv, TypeOK
  <2>3. EventIds \subseteq Nat
    BY DEF EventIds
  <2>4. work.events \in [EventIds -> EventIds \cup {Absent}]
    BY <2>2 DEF Store
  <2> QED
    BY <2>1, <2>2, <2>3, <2>4
<1>1. CASE MutateStep
  <2>1. PICK w \in Store :
              /\ w.events = work.events
              /\ latestEventId' = latestEventId + 1
              /\ latestEventId + 1 \in EventIds /\ nLogged + 1 \in EventIds
              /\ work' = LogEvent(w, latestEventId + 1)
              /\ LogEvent(w, latestEventId + 1).events
                    = [work.events EXCEPT ![latestEventId + 1] = nLogged + 1]
              /\ Blockchain => disk' = disk
    BY <1>0, <1>1, MutateTree
  <2>0. latestEventId' = latestEventId + 1
    BY <2>1
  <2>2. ASSUME NEW i \in EventIds, work'.events[i] # Absent
        PROVE  i <= latestEventId'
    <3>1. CASE i = latestEventId + 1
      BY <1>0, <2>0, <3>1
    <3>2. CASE i # latestEventId + 1
      <4>1. work.events[i] # Absent
        BY <1>0, <2>1, <2>2, <3>2
      <4> QED
        BY <1>0, <2>1, <4>1
    <3> QED
      BY <3>1, <3>2
  <2> QED
    BY <1>0, <2>1, <2>2
<1>2. CASE NewSubresourceId
  <2>1. nextSubresource \in 0..MaxSubresource - 1
    BY <1>0, <1>2 DEF NewSubresourceId, TypeInv, TypeOK
  <2>2. work'.events = work.events
    BY <1>0, <1>2, <2>1, SubWriteType DEF NewSubresourceId
  <2> QED
    BY <1>0, <1>2, <2>2 DEF NewSubresourceId
<1>3. CASE Commit
  <2>1. latestEventId \in 0..MaxEvents /\ work.height < MaxHeight
    BY <1>0, <1>3 DEF Commit, TypeInv, TypeOK
  <2>2. /\ work'.events = work.events /\ work'.latest = latestEventId
        /\ disk' = work'
    BY <1>0, <1>3, <2>1, CommitWriteType DEF Commit
  <2> QED
    BY <1>0, <1>3, <2>2 DEF Commit
<1>4. CASE Restart
  BY <1>0, <1>4 DEF Restart
<1>5. CASE UNCHANGED vars
  BY <1>0, <1>5 DEF vars
<1> QED
  BY <1>0, <1>1, <1>2, <1>3, <1>4, <1>5, NextCases

(* In blockchain mode the stored /latest_event_id is at least the id of   *)
(* every stored event, so load() never resumes at an id already used.     *)
(* Outside blockchain mode it fails: put, disable and transfer commit    *)
(* their events without the id, which only commit() writes.               *)
THEOREM StoredCounterCovers ==
    ASSUME Blockchain = TRUE PROVE Spec => []StoredCounterCoversEvents
<1>1. CounterInv => StoredCounterCoversEvents
  BY DEF CounterInv
<1>2. CounterInv /\ [Next]_vars => CounterInv'
  BY CounterStep
<1> QED
  BY CounterInit, <1>2, <1>1, PTL DEF Spec

-----------------------------------------------------------------------------
(* The refinement of the append-only store, in blockchain mode.  The      *)
(* reader of the reopened store sees a log that only grows, and a view    *)
(* that changes only when it does, because: a tree's events are exactly  *)
(* the ids up to its counter (log_event takes the next id, commit() and  *)
(* load() keep the counter with the events), the working tree extends    *)
(* the committed one, and it holds other data or ACLs only after a new   *)
(* event (put, disable and transfer all log one).                         *)
EventsUpTo(s, n) == \A i \in EventIds : s.events[i] # Absent <=> i <= n

RefInv ==
    /\ TypeInv
    /\ EventsUpTo(work, latestEventId)
    /\ EventsUpTo(disk, disk.latest)
    /\ disk.latest <= latestEventId
    /\ \A i \in 1..disk.latest : work.events[i] = disk.events[i]
    /\ latestEventId = disk.latest =>
          work.data = disk.data /\ work.acl = disk.acl

LEMMA RefInit == Init => RefInv
BY TypeInvInit DEF Init, RefInv, Genesis, EventsUpTo, EventIds

LEMMA RefStep ==
    ASSUME Blockchain = TRUE PROVE RefInv /\ [Next]_vars => RefInv'
<1> SUFFICES ASSUME RefInv, [Next]_vars
             PROVE  /\ EventsUpTo(work', latestEventId')
                    /\ EventsUpTo(disk', disk'.latest)
                    /\ disk'.latest <= latestEventId'
                    /\ \A i \in 1..disk'.latest : work'.events[i] = disk'.events[i]
                    /\ latestEventId' = disk'.latest =>
                          work'.data = disk'.data /\ work'.acl = disk'.acl
  BY TypeInvStep DEF RefInv
<1>0. /\ TypeInv
      /\ EventsUpTo(work, latestEventId)
      /\ EventsUpTo(disk, disk.latest)
      /\ disk.latest <= latestEventId
      /\ \A i \in 1..disk.latest : work.events[i] = disk.events[i]
      /\ latestEventId = disk.latest =>
            work.data = disk.data /\ work.acl = disk.acl
      /\ work \in Store /\ disk \in Store
      /\ latestEventId \in Nat /\ disk.latest \in 0..MaxEvents /\ EventIds \subseteq Nat
      /\ work.events \in [EventIds -> EventIds \cup {Absent}]
  BY DEF RefInv, TypeInv, TypeOK, Store, EventIds
<1>1. CASE MutateStep
  <2>1. PICK w \in Store :
              /\ w.events = work.events
              /\ latestEventId' = latestEventId + 1
              /\ latestEventId + 1 \in EventIds /\ nLogged + 1 \in EventIds
              /\ work' = LogEvent(w, latestEventId + 1)
              /\ LogEvent(w, latestEventId + 1).events
                    = [work.events EXCEPT ![latestEventId + 1] = nLogged + 1]
              /\ Blockchain => disk' = disk
    BY <1>0, <1>1, MutateTree
  <2>2. disk' = disk /\ nLogged + 1 # Absent
    BY <2>1
  <2>5. work'.events = [work.events EXCEPT ![latestEventId + 1] = nLogged + 1]
    BY <2>1
  <2>3. EventsUpTo(work', latestEventId')
    BY <1>0, <2>1, <2>2, <2>5 DEF EventsUpTo
  <2>4. \A i \in 1..disk.latest : work'.events[i] = disk.events[i]
    <3> SUFFICES ASSUME NEW i \in 1..disk.latest
                 PROVE  work'.events[i] = disk.events[i]
      OBVIOUS
    <3>1. i # latestEventId + 1 /\ i \in EventIds
      BY <1>0 DEF EventIds
    <3> QED
      BY <1>0, <2>5, <3>1
  <2> QED
    BY <1>0, <2>1, <2>2, <2>3, <2>4
<1>2. CASE NewSubresourceId
  <2>1. nextSubresource \in 0..MaxSubresource - 1
    BY <1>0, <1>2 DEF NewSubresourceId, TypeInv, TypeOK
  <2>2. /\ work'.events = work.events /\ work'.data = work.data
        /\ work'.acl = work.acl
    BY <1>0, <1>2, <2>1 DEF NewSubresourceId, Store
  <2> QED
    BY <1>0, <1>2, <2>2 DEF NewSubresourceId, EventsUpTo
<1>3. CASE Commit
  <2>1. latestEventId \in 0..MaxEvents /\ work.height < MaxHeight
    BY <1>0, <1>3 DEF Commit, TypeInv, TypeOK
  <2>2. /\ work'.events = work.events /\ work'.latest = latestEventId
        /\ work'.data = work.data /\ work'.acl = work.acl
        /\ disk' = work'
    BY <1>0, <1>3, <2>1 DEF Commit, Store
  <2> QED
    BY <1>0, <1>3, <2>2 DEF Commit, EventsUpTo
<1>4. CASE Restart
  BY <1>0, <1>4 DEF Restart, EventsUpTo
<1>5. CASE UNCHANGED vars
  BY <1>0, <1>5 DEF vars, EventsUpTo
<1> QED
  BY <1>0, <1>1, <1>2, <1>3, <1>4, <1>5, NextCases

(* The log a reader of tree s sees: its events up to its counter.         *)
LogOf(s) == [i \in 1..s.latest |-> s.events[i]]

(* What DurableLog reads from a tree: its events, ids 1 to their count.  *)
ReadLog(s) ==
    [i \in 1..Cardinality({j \in EventIds : s.events[j] # Absent}) |-> s.events[i]]

LEMMA ReadLogIs ==
    ASSUME NEW s \in Store, EventsUpTo(s, s.latest)
    PROVE  ReadLog(s) = LogOf(s)
<1>1. s.latest \in 0..MaxEvents
  BY DEF Store
<1>2. {j \in EventIds : s.events[j] # Absent} = 1..s.latest
  BY <1>1 DEF EventsUpTo, EventIds
<1>3. Cardinality(1..s.latest) = s.latest
  BY <1>1, FS_Interval
<1> QED
  BY <1>2, <1>3 DEF ReadLog, LogOf

LEMMA DurableLogIs ==
    ASSUME disk \in Store, EventsUpTo(disk, disk.latest)
    PROVE  DurableLog = LogOf(disk)
BY ReadLogIs DEF DurableLog, ReadLog

(* A tree whose events are exactly the ids up to its counter shows a     *)
(* sequence of events.                                                     *)
LEMMA LogOfType ==
    ASSUME NEW s \in Store, EventsUpTo(s, s.latest)
    PROVE  LogOf(s) \in Seq(EventIds) /\ Len(LogOf(s)) = s.latest
<1>1. s.latest \in 0..MaxEvents /\ s.events \in [EventIds -> EventIds \cup {Absent}]
  BY DEF Store
<1>2. \A i \in 1..s.latest : s.events[i] \in EventIds
  BY <1>1 DEF EventsUpTo, EventIds
<1>3. LogOf(s) \in [1..s.latest -> EventIds]
  BY <1>2 DEF LogOf
<1> QED
  BY <1>1, <1>3 DEF LogOf

LEMMA ViewType ==
    ASSUME NEW s \in Store
    PROVE  [k \in Keys |-> Get(s, k)] \in [Keys -> Values \cup {Absent, "disabled"}]
BY DEF Store, Get

(* A commit that makes new events durable appends them to the log.       *)
LEMMA LogGrows ==
    ASSUME NEW s \in Store, NEW t \in Store,
           EventsUpTo(s, s.latest), EventsUpTo(t, t.latest),
           s.latest < t.latest,
           \A i \in 1..s.latest : t.events[i] = s.events[i]
    PROVE  ABS!IsStrictPrefix(LogOf(s), LogOf(t))
<1>1. /\ LogOf(s) \in Seq(EventIds) /\ Len(LogOf(s)) = s.latest
      /\ LogOf(t) \in Seq(EventIds) /\ Len(LogOf(t)) = t.latest
  BY LogOfType
<1>2. s.latest \in Nat /\ t.latest \in Nat
  BY DEF Store
<1>3. SubSeq(LogOf(s), 1, s.latest) = LogOf(s)
  BY <1>1, <1>2 DEF LogOf
<1>4. SubSeq(LogOf(t), 1, s.latest) = LogOf(s)
  BY <1>1, <1>2 DEF LogOf
<1>5. LogOf(s) # LogOf(t)
  BY <1>1, <1>2
<1> QED
  BY <1>1, <1>2, <1>3, <1>4, <1>5 DEF ABS!IsStrictPrefix, ABS!IsPrefix

LEMMA RefInitMaps == Init => ABS!Init
<1> SUFFICES ASSUME Init PROVE DurableLog = <<>> /\ DurableView \in [Keys -> Values \cup {Absent, "disabled"}]
  BY DEF ABS!Init
<1>1. disk = Genesis /\ Genesis \in Store
  BY TypeInvInit DEF Init, TypeInv, TypeOK
<1>2. EventsUpTo(disk, disk.latest) /\ disk.latest = 0
  BY <1>1 DEF Genesis, EventsUpTo, EventIds
<1>3. DurableLog = LogOf(disk)
  BY <1>1, <1>2, DurableLogIs
<1>4. LogOf(disk) = <<>>
  BY <1>2 DEF LogOf
<1>5. DurableView \in [Keys -> Values \cup {Absent, "disabled"}]
  BY <1>1, ViewType DEF DurableView
<1> QED
  BY <1>3, <1>4, <1>5

LEMMA RefStepMaps ==
    ASSUME Blockchain = TRUE, RefInv, RefInv', [Next]_vars
    PROVE  [ABS!Grow]_<<DurableLog, DurableView>>
<1>0. /\ disk \in Store /\ disk' \in Store
      /\ EventsUpTo(disk, disk.latest) /\ EventsUpTo(disk', disk'.latest)
  BY DEF RefInv, TypeInv, TypeOK
<1>1. DurableLog = LogOf(disk) /\ DurableLog' = LogOf(disk')
  <2>1. DurableLog = ReadLog(disk) /\ DurableLog' = ReadLog(disk')
    BY DEF DurableLog, ReadLog
  <2> QED
    BY <1>0, <2>1, ReadLogIs
<1>2. CASE disk' = disk
  BY <1>2 DEF DurableLog, DurableView
<1>3. CASE Commit
  <2>1. /\ disk' = work' /\ work'.events = work.events
        /\ work'.latest = latestEventId
        /\ work'.data = work.data /\ work'.acl = work.acl
    <3>1. work \in Store /\ latestEventId \in 0..MaxEvents /\ work.height < MaxHeight
      BY <1>3 DEF RefInv, TypeInv, TypeOK, Commit
    <3> QED
      BY <1>3, <3>1 DEF Commit, Store
  <2>2. /\ disk.latest \in Nat /\ latestEventId \in Nat
        /\ disk.latest <= latestEventId
        /\ \A i \in 1..disk.latest : work.events[i] = disk.events[i]
        /\ latestEventId = disk.latest =>
              work.data = disk.data /\ work.acl = disk.acl
    BY <1>0 DEF RefInv, TypeInv, TypeOK, Store
  <2>3. CASE latestEventId = disk.latest
    <3>1. LogOf(disk') = LogOf(disk)
      BY <2>1, <2>2, <2>3 DEF LogOf
    <3>2. DurableView' = DurableView
      BY <2>1, <2>2, <2>3 DEF DurableView, Get
    <3> QED
      BY <1>1, <3>1, <3>2
  <2>4. CASE latestEventId # disk.latest
    <3>1. ABS!IsStrictPrefix(LogOf(disk), LogOf(disk'))
      BY <1>0, <2>1, <2>2, <2>4, LogGrows
    <3>2. LogOf(disk') \in Seq(EventIds)
      BY <1>0, LogOfType
    <3>3. DurableView' \in [Keys -> Values \cup {Absent, "disabled"}]
      BY <1>0, ViewType DEF DurableView
    <3> QED
      BY <1>1, <3>1, <3>2, <3>3 DEF ABS!Grow
  <2> QED
    BY <2>3, <2>4
<1>4. disk' = disk \/ Commit
  <2>0. TypeInv
    BY DEF RefInv
  <2>1. CASE MutateStep
    BY <2>0, <2>1, MutateTree
  <2>2. CASE NewSubresourceId \/ Restart \/ UNCHANGED vars
    BY <2>2 DEF NewSubresourceId, Restart, vars
  <2> QED
    BY <2>0, <2>1, <2>2, NextCases
<1> QED
  BY <1>2, <1>3, <1>4

(* In blockchain mode the store implements the append-only store: across *)
(* puts, disables, transfers, subresource ids, commits and crashes, the   *)
(* durable event log only grows, and what get() returns from the durable  *)
(* tree changes only when the log does.                                   *)
THEOREM KvRefinement ==
    ASSUME Blockchain = TRUE PROVE Spec => Refinement
<1>1. RefInv /\ RefInv' /\ [Next]_vars => [ABS!Grow]_<<DurableLog, DurableView>>
  BY RefStepMaps
<1>2. RefInv /\ [Next]_vars => RefInv'
  BY RefStep
<1>3. Spec => []RefInv
  BY RefInit, <1>2, PTL DEF Spec
<1> QED
  BY RefInitMaps, <1>1, <1>3, PTL DEF Spec, Refinement, ABS!Spec

=============================================================================
