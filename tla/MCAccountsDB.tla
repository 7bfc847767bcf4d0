---------------------------- MODULE MCAccountsDB ----------------------------
(* A small instance of AccountsDB: accounts of two sizes and two owners in a   *)
(* mapping of a few units, so that spans are freed, reused and packed.         *)
EXTENDS AccountsDB, TLC

CONSTANTS k1, k2, k3, p1, p2, x1, x2

MCKey == {k1, k2, k3}
MCOwner == {p1, p2}
MCExecutor == {x1, x2}

Image(mode, owner, units) == [mode |-> mode, owner |-> owner, units |-> units]

MCImages ==
    {Image("Mirrored", p1, 1), Image("Magic", p1, 1), Image("Magic", p2, 2),
     Image("Closed", p1, 1)}

MCSymmetry == Permutations(MCKey) \cup Permutations(MCExecutor)
=============================================================================
