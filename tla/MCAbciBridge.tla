--------------------------- MODULE MCAbciBridge ---------------------------
(* A small instance of AbciBridge for TLC: two well-formed envelopes with  *)
(* timestamps 0 and 1, one that does not deserialize and one whose payload *)
(* is not a request; block times 0..1 (or none, or a bad header time) and  *)
(* a one-second timeout, so a difference of exactly the timeout occurs;    *)
(* two blocks of one transaction each; the legacy_error_code migration    *)
(* activates at height 1, so a block may run before it (a header-less     *)
(* begin_block leaves the migrations at height 0) and after it.           *)
EXTENDS AbciBridge, TLC

CONSTANTS e1, e2, e3, e4

MCEnvelope == {e1, e2, e3, e4}
MCMalformed == {e3}
MCNotMessage == {e4}
MCInvalid == {}
MCCommands == {e1}
MCTime == 0..1
MCTimestampOf == (e1 :> 0 @@ e2 :> 1 @@ e3 :> 0 @@ e4 :> 1)
=============================================================================
