---------------------------- MODULE MCExecution ----------------------------
(***************************************************************************)
(* An instance of Execution.  Svm: a payer that is the authority, an       *)
(* account, an SBF program, a builtin and MagicRoot.  Ingress: messages of *)
(* every version in bytes of radix 4, some with one byte disturbed.        *)
(* Parameters: up to three accounts, with every pattern of duplicates.     *)
(***************************************************************************)
EXTENDS Execution

MCKeys == {"pay", "a", "p", "n", "root"}
MCElf == {<<1>>, <<2>>}
MCDerived == [p \in MCKeys |-> IF p = "p" THEN {"a"} ELSE {}]
MCBuiltins == {"n", "root"}

Account(lamports, data, owner, mode) ==
    [lamports |-> lamports, data |-> data, owner |-> owner, exec |-> FALSE, mode |-> mode,
     slot |-> 1, dirty |-> FALSE, moded |-> FALSE]

Program(data, owner) ==
    [Account(1, data, owner, IF owner = "native" THEN "Runtime" ELSE "Mirrored")
        EXCEPT !.exec = TRUE]

Store(a, loader) ==
    [pay |-> Account(2, <<>>, "sys", "Delegated"), a |-> a,
     p |-> Program(<<1>>, loader), n |-> Program(<<>>, "native"),
     root |-> Program(<<>>, "native")]

MCStores ==
    {Store(Account(1, <<0>>, "p", mode), "loader") : mode \in {"Delegated", "Magic", "Mirrored"}}
    \cup {Store(Account(1, <<0>>, "n", "Delegated"), "loader"),
          Store(Account(1, <<0>>, "p", "Delegated"), "loader0"),
          [Store(Account(1, <<0>>, "p", "Magic"), "loader") EXCEPT !.pay.mode = "Mirrored"]}

Other == [kind |-> "any"]
R == [w |-> FALSE, s |-> FALSE]
W == [w |-> TRUE, s |-> FALSE]
S == [w |-> TRUE, s |-> TRUE]

Ix(program, metas) == [program |-> program, metas |-> metas, op |-> Other]

OnP == Ix("p", [a |-> W, p |-> R, n |-> R, root |-> R])
NearP == Ix("p", [a |-> W, p |-> R, n |-> R])
OnN == Ix("n", [a |-> W, p |-> W, n |-> R, root |-> R])
CallN == Ix("n", [a |-> W, root |-> R])
SeeN == Ix("n", [a |-> R])
SignP == Ix("p", [a |-> S, n |-> R])

MCCpiIxs == {CallN, SeeN, SignP, Compose([kind |-> "Delete"], "a")}

ActAs == [kind |-> "PostFinalize", source |-> "base", actions |-> <<Ix("n", [a |-> S])>>]

Upgrade == [Program(<<2>>, "loader") EXCEPT !.slot = 2]

MCRootIxs ==
    {Compose([kind |-> "Lamports", lamports |-> 2], "a"),
     Compose([kind |-> "Lifecycle", mode |-> "Undelegating", slot |-> 1], "a"),
     Compose([kind |-> "DataAt", offset |-> 0, data |-> <<2>>], "p"),
     Compose([kind |-> "Finalize", exec |-> TRUE], "p"),
     Compose([kind |-> "Delete"], "p"), Compose(ActAs, "a")}

Tx(w, ixs, units) ==
    [w |-> w, s |-> {"pay"}, ixs |-> ixs, units |-> units, limit |-> 4, sim |-> FALSE]

Simulated(t) == [t EXCEPT !.sim = TRUE]

MCTxs ==
    {Tx({"pay", "a"}, <<OnP>>, 2), Tx({"pay", "a"}, <<NearP>>, 3),
     Tx({"pay", "a", "p"}, <<OnN>>, 4),
     Tx({"pay", "a"}, <<Compose(ActAs, "a"), OnP>>, 3),
     Tx({"pay", "a"}, ComposeAccount("a", Account(0, <<1, 0>>, "p", "Mirrored")), 9),
     Simulated(Tx({"pay", "a"}, <<Ix("n", [a |-> W])>>, 1))}

UpgradeTx == Tx({"pay", "p"}, ComposeAccount("p", Upgrade), 9)
DeleteTx == Tx({"pay", "p"}, <<Compose([kind |-> "Delete"], "p")>>, 2)
ShortTx == Tx({"pay", "a"}, <<NearP>>, 1)

(* Transactions of their own, and programs changed before, after and by a   *)
(* simulation.                                                              *)
MCStreams ==
    {<<t>> : t \in MCTxs}
    \cup {<<UpgradeTx, Simulated(DeleteTx), ShortTx>>, <<DeleteTx, ShortTx>>,
          <<Simulated(UpgradeTx), UpgradeTx>>, <<Simulated(UpgradeTx), ShortTx, DeleteTx>>}

-----------------------------------------------------------------------------
(* Ingress: bytes of two bits, keys, hashes and signatures of one byte.   *)

K(n) == <<n>>
MCLoader == K(6)
MCEngineKey == K(1)

NewTx(v, head, keys, mask, ixs) ==
    [version |-> v, required |-> head[1], roSigned |-> head[2], roUnsigned |-> head[3],
     keys |-> keys, sigs |-> [i \in 1..head[1] |-> IF i <= Len(keys) THEN keys[i] ELSE K(0)],
     hash |-> <<5>>, mask |-> mask, ixs |-> ixs, atls |-> <<>>,
     config |-> [bit \in {i \in {0, 2, 3, 4} : HasBit(mask, i)} |->
                    CASE bit = 0 -> <<1, 2, 3, 4>> [] bit = 4 -> <<0, 1>> [] OTHER -> <<bit, 0>>]]

Call(program, accounts, data) == [program |-> program, accounts |-> accounts, data |-> data]

MCVersions == {"Legacy", "V0", "V1", "Magicblock"}
MCMaxSize == [v \in MCVersions |-> IF v = "Magicblock" THEN 40 ELSE 26]
MCMaxLocks == [Legacy |-> 8, V0 |-> 8, V1 |-> 4, Magicblock |-> 7]
MCMaxIxs == [v \in MCVersions |-> IF v = "Magicblock" THEN 3 ELSE 2]

Heads == ({1, 2, 3} \X {0, 1} \X {0, 1, 7}) \cup {<<0, 0, 0>>, <<2, 2, 0>>}
KeyLists == {<<K(1)>>, <<K(1), K(2)>>, <<K(1), K(2), K(3)>>, <<K(2), K(1), K(6)>>,
             <<K(1), K(2), K(1)>>}
IxLists == {<<>>, <<Call(1, <<0, 1>>, <<7, 7, 7, 7, 7>>)>>,
            <<Call(2, <<>>, <<>>), Call(1, <<2>>, <<4>>)>>,
            <<Call(1, <<0, 3>>, <<>>)>>, <<Call(0, <<0>>, <<>>)>>}
Masks(v) == CASE v = "V1" -> {0, 20} [] v = "Magicblock" -> {3} [] OTHER -> {0}

MCCompanion == NewTx("V0", <<1, 0, 1>>, <<K(1), K(2)>>, 0, <<Call(1, <<0>>, <<>>)>>)

(* Transactions also sent with a byte changed, cut or added on the way. *)
Disturbed ==
    {[MCCompanion EXCEPT !.atls = <<[key |-> K(3), w |-> <<1>>, r |-> <<0, 2>>]>>],
     NewTx("Legacy", <<2, 1, 0>>, <<K(1), K(2), K(3)>>, 0,
           <<Call(2, <<0, 1>>, <<7, 7, 7, 7, 7>>), Call(1, <<2>>, <<>>)>>),
     NewTx("V0", <<1, 0, 1>>, <<K(1), K(6), K(3)>>, 0, <<Call(1, <<0>>, <<4>>)>>),
     NewTx("V1", <<1, 0, 1>>, <<K(2), K(3)>>, 31, <<Call(1, <<0, 1>>, <<7>>)>>),
     NewTx("Magicblock", <<2, 0, 1>>, <<K(1), K(2), K(3)>>, 0,
           <<Call(1, <<0>>, <<>>), Call(2, <<>>, <<4>>)>>)}

MCSent ==
    Disturbed \cup
    UNION {{NewTx(v, head, keys, mask, ixs) : head \in Heads, keys \in KeyLists, ixs \in IxLists,
                                              mask \in Masks(v)} : v \in MCVersions}

MCWires(t) ==
    LET b == Serialized(t) IN
    {b} \cup (IF t \in Disturbed
              THEN {[b EXCEPT ![i] = x] : i \in DOMAIN b, x \in 0..7}
                   \cup {SubSeq(b, 1, Len(b) - 1)} \cup {Append(b, x) : x \in {0, 1}}
                   \cup {RemoveAt(b, i) : i \in DOMAIN b}
                   \cup {InsertAt(b, i, x) : i \in DOMAIN b, x \in {0, 1, 4}}
              ELSE {})

-----------------------------------------------------------------------------
(* Parameters.                                                              *)

DataLens == {0, 1, 8, 13}

AccountLists == UNION {[1..n -> [len : DataLens, same : 1..n]] : n \in 0..3}

MCIxAccounts ==
    {l \in AccountLists : \A i \in DOMAIN l :
        LET first == l[i].same
        IN  first <= i /\ l[first].same = first /\ l[first].len = l[i].len}
=============================================================================
