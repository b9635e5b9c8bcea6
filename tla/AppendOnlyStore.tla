--------------------------- MODULE AppendOnlyStore ---------------------------
(***************************************************************************)
(* What the storage core promises a reader who reopens it: a key-value    *)
(* view and an event log.  The log only grows, and the view changes only  *)
(* in a step that also appends to the log (every mutation observable in  *)
(* a commit is accompanied by an event).  A step may append several       *)
(* events at once: a commit makes a whole batch durable.                  *)
(***************************************************************************)
EXTENDS Sequences, SequencesExt

CONSTANTS
    Keys,    \* the keys of the store
    View,    \* what a read of a key can return
    Event    \* the events

VARIABLES log, view

Init ==
    /\ log = <<>>
    /\ view \in [Keys -> View]

(* A durable step: new events are appended, and the view may change.     *)
Grow ==
    /\ log' \in Seq(Event)
    /\ IsStrictPrefix(log, log')
    /\ view' \in [Keys -> View]

Spec == Init /\ [][Grow]_<<log, view>>
=============================================================================
