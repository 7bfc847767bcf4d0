---------------------------- MODULE MCSequencer ----------------------------
(***************************************************************************)
(* A small instance of Sequencer: two accounts, two executors.             *)
(***************************************************************************)
EXTENDS Sequencer

CONSTANTS a, b

MCAccount == {a, b}

MCRequest ==
    {[writes |-> {a}, reads |-> {}],
     [writes |-> {b}, reads |-> {a}],
     [writes |-> {}, reads |-> {a}]}
=============================================================================
