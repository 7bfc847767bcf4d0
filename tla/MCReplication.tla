--------------------------- MODULE MCReplication ---------------------------
(* Instance of Replication. *)
EXTENDS Replication

MCLoad == <<0, 0, 2, 1, 0>>

(* A sealed superblock of two blocks, the third block and the checkpoint    *)
(* behind it.                                                               *)
MCPast ==
    <<Record("Block", 0, 1), Record("Block", 0, 2), Record("Seal", 0, 3),
      Record("Tx", 0, 4), Record("Tx", 0, 5), Record("Block", 2, 6), Record("Checkpoint", 2, 7)>>
=============================================================================
