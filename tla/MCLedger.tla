------------------------------ MODULE MCLedger ------------------------------
(* The ledger with a transaction, a reader and a crash, and histories of up to *)
(* three transactions, of which the second does not name the account.          *)
EXTENDS Ledgers

CONSTANTS t1, r1

MCSignature == {t1}
MCReader == {r1}
=============================================================================
