--------------------------- MODULE MCLedgerCrash ---------------------------
(* Ledger with one transaction, no reader and a crash. *)
EXTENDS Ledger

CONSTANTS t1

MCOneSignature == {t1}
MCNoReader == {}
=============================================================================
