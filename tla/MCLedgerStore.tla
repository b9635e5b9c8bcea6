---------------------------- MODULE MCLedgerStore ----------------------------
(* Two addresses (a1 holds one token), one symbol with maximum 3 owned by  *)
(* own, an unknown symbol, the server identity srv minting, one recall    *)
(* phrase and two credentials.  MCAddrsAnon puts the anonymous address in *)
(* place of a2.                                                            *)
EXTENDS LedgerStore, TLC

CONSTANTS a1, a2, anon, sym1, symX, srv, own, other, p1, c1, c2

MCAddrs == {a1, a2}
MCAddrsAnon == {a1, anon}
MCSymbols == {sym1}
MCSymbolInputs == {sym1, symX}
MCSenders == {srv, own, other}
MCOwner == sym1 :> own
MCMaximum == sym1 :> 3
MCInitialBalance == [a \in Addrs |-> [s \in Symbols |-> IF a = a1 THEN 1 ELSE 0]]
=============================================================================
