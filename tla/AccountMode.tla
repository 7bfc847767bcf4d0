---------------------------- MODULE AccountMode ----------------------------
(***************************************************************************)
(* Account lifecycle modes (solana/account/src/mode.rs): what each mode    *)
(* says of kind, access and data flow, and the transitions between them.   *)
(***************************************************************************)
EXTENDS Integers

(* The declared modes. *)
Policy ==
    [Missing      |-> [kind |-> "Missing", access |-> "ReadOnly", flow |-> "BaseToEr"],
     Mirrored     |-> [kind |-> "Regular", access |-> "ReadOnly", flow |-> "BaseToEr"],
     Delegated    |-> [kind |-> "Regular", access |-> "Writable", flow |-> "ErToBase"],
     Undelegating |-> [kind |-> "Regular", access |-> "ReadOnly", flow |-> "ErToBase"],
     Magic        |-> [kind |-> "Regular", access |-> "Writable", flow |-> "NoSync"],
     Runtime      |-> [kind |-> "Regular", access |-> "ReadOnly", flow |-> "NoSync"],
     Closed       |-> [kind |-> "Closed", access |-> "ReadOnly", flow |-> "NoSync"]]

AccountModes == DOMAIN Policy

IsWritable(mode) == Policy[mode].access = "Writable"

Authority(mode) ==
    CASE Policy[mode].kind \in {"Missing", "Closed"} -> "None"
      [] Policy[mode].kind = "Regular" /\ Policy[mode].flow = "BaseToEr" -> "Base"
      [] OTHER -> "Er"

RequiresPersistence(mode) == Authority(mode) = "Er"

(* Transitions that need a newer slot, and those that may keep it. *)
Advancing ==
    {<<"Missing", "Missing">>, <<"Mirrored", "Missing">>, <<"Mirrored", "Mirrored">>,
     <<"Runtime", "Runtime">>, <<"Undelegating", "Delegated">>}

Keeping ==
    ({"Missing"} \X {"Mirrored", "Runtime", "Delegated", "Magic", "Closed"})
    \cup ({"Mirrored"} \X {"Delegated", "Magic", "Closed"})
    \cup {<<"Delegated", "Undelegating">>}
    \cup ({"Magic"} \X {"Delegated", "Closed"})
    \cup ({"Undelegating"} \X {"Missing", "Mirrored", "Closed"})

ValidMode(from, to) == <<from, to>> \in Advancing \cup Keeping

ValidTransition(from, to, fromSlot, toSlot) ==
    \/ <<from, to>> \in Advancing /\ toSlot > fromSlot
    \/ <<from, to>> \in Keeping /\ toSlot >= fromSlot
=============================================================================
