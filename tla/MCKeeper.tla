------------------------------ MODULE MCKeeper ------------------------------
(* An instance of Keeper: two accounts, transactions and calls, and three      *)
(* services, one in the first tier and two in the third.                       *)
EXTENDS Keeper

CONSTANTS client, sequencer, appender, t1, t2, r1, r2

(* Two transactions, and one with two subscribers. *)
MCWorkload == [admission    |-> [txs |-> {t1, t2}, receivers |-> {}, slots |-> 3],
               subscription |-> [txs |-> {t1}, receivers |-> {r1, r2}, slots |-> 2]]

MCService == {client, sequencer, appender}

MCTierOf == (client :> 1) @@ (sequencer :> 3) @@ (appender :> 3)

MCAccounts == {1, 2}

MCImages == {[mode |-> "Mirrored", slot |-> 1, must |-> FALSE],
             [mode |-> "Mirrored", slot |-> 2, must |-> FALSE],
             [mode |-> "Delegated", slot |-> 2, must |-> TRUE]}

MCRequests == {<<1, 2>>, <<2, 1>>, <<1, 1>>}
=============================================================================
