---------------------------- MODULE MCMigration ----------------------------
(* A small instance of Migration: two Regular migrations and a Hotfix;    *)
(* the configuration names "tokens" twice (the later entry wins) and     *)
(* leaves "accounts" disabled.                                            *)
EXTENDS Migration, TLC

CONSTANTS tokens, legacy, accounts, hfx

MCRegistry == {tokens, legacy, accounts, hfx}
MCKind == (tokens :> "Regular" @@ legacy :> "Regular"
           @@ accounts :> "Regular" @@ hfx :> "Hotfix")
MCConfig == << [type |-> tokens, block_height |-> 1],
               [type |-> legacy, block_height |-> 3],
               [type |-> hfx, block_height |-> 2],
               [type |-> tokens, block_height |-> 2] >>
=============================================================================
