------------------------------ MODULE Ledgers ------------------------------
(***************************************************************************)
(* The ledger's writing side with single lookups (Ledger) and its queries  *)
(* over whole histories (History).  History looks at the same files from   *)
(* further away, a block at a time, so the two share no variable and a     *)
(* behaviour is of the one it starts with.                                 *)
(***************************************************************************)
EXTENDS Ledger, History

VARIABLE part   \* "files" or "history"

ledgersVars == <<vars, historyVars, part>>

LedgersInit == Init /\ HistoryInit /\ part \in {"files", "history"}

LedgersNext ==
    \/ part = "files" /\ Next /\ UNCHANGED <<historyVars, part>>
    \/ part = "history" /\ HistoryNext /\ UNCHANGED <<vars, part>>

LedgersSpec == LedgersInit /\ [][LedgersNext]_ledgersVars

(* Whoever asks for a block, a range of blocks or a page of an account's       *)
(* history is answered from the ledger as it is: BlockQueriesAnswer through    *)
(* the lag of the index, HistoryAnswers through growth, seals and truncation.  *)
QueriesAnswer == BlockQueriesAnswer /\ HistoryAnswers
=============================================================================
