------------------------------ MODULE Accounts ------------------------------
(***************************************************************************)
(* Both views of the accounts of solana/account/src/cow: the image that    *)
(* threads read while it is written, word by word (AccountImage), and what *)
(* the operations of its one writer compute, one at a time (CowAccount).   *)
(* They are two abstractions of the same code and share no variable; a     *)
(* behaviour is of the one it starts with.                                 *)
(***************************************************************************)
EXTENDS AccountImage, CowAccount

VARIABLE part   \* "image" or "cow"

accountVars == <<imageVars, cowVars, part>>

NoImage ==
    /\ seq = 0 /\ account = 0 /\ image = <<<<>>, <<>>>> /\ writer = [pc |-> "idle"]
    /\ reader = [r \in Reader |-> [pc |-> "idle", reads |-> 0]]
    /\ writes = MaxWrites

NoCow ==
    /\ images = Serialized([Blank EXCEPT !.mode = "Delegated"], 0)
    /\ sequence = 0 /\ volatile = None /\ cow = Borrowed(0) /\ dirty = {} /\ ops = MaxOps

Init ==
    \/ part = "image" /\ ImageInit /\ NoCow
    \/ part = "cow" /\ CowInit /\ NoImage

Next ==
    \/ part = "image" /\ ImageNext /\ UNCHANGED <<cowVars, part>>
    \/ part = "cow" /\ CowNext /\ UNCHANGED <<imageVars, part>>

Spec == Init /\ [][Next]_accountVars
=============================================================================
