----------------------------- MODULE MCAccounts -----------------------------
(* Two readers of an image of two words; a small account whose images grow by  *)
(* two bytes and whose data has at most four.                                  *)
EXTENDS Accounts

CONSTANTS r1, r2

MCReader == {r1, r2}

MCSymmetry == Permutations(MCReader)

MCChunk == {<<1, 2>>, <<2, 1, 1>>}

MCTarget ==
    {[lamports |-> 1, owner |-> 1, slot |-> 1, commit_seq |-> 1, mode |-> mode,
      flags |-> 1, data |-> data] :
        mode \in {"Mirrored", "Delegated"}, data \in {<<>>, <<2>>, <<2, 2, 1, 2>>}}
=============================================================================
