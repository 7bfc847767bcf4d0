----------------------------- MODULE MCReaders -----------------------------
(* A small instance of Readers. *)
EXTENDS Readers
=============================================================================
