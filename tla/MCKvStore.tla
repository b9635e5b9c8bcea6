----------------------------- MODULE MCKvStore -----------------------------
(* Two keys, one value, two owners; key k2 starts with an ACL entry.       *)
EXTENDS KvStore, TLC

CONSTANTS k1, k2, v1, o1, o2

MCKeys == {k1, k2}
MCValues == {v1}
MCOwners == {o1, o2}
MCInitialAcl == (k1 :> Absent) @@ (k2 :> [owner |-> o1, disabled |-> "none"])
=============================================================================
