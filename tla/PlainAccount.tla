---------------------------- MODULE PlainAccount ----------------------------
(***************************************************************************)
(* What AccountSharedData promises: an account is a record of fields and a *)
(* byte string, a setter changes its field and nothing else, and others    *)
(* see the changes of a transaction when it is stored, all or none.        *)
(***************************************************************************)
EXTENDS Integers, SequencesExt, AccountMode

CONSTANTS
    Byte,       \* values of a byte, 0 among them
    Number,     \* lamports, owners, commit sequences and flags
    Slot,       \* source slots
    Modes,      \* lifecycle modes in play
    MaxLen,     \* bound on the length of data
    Chunk       \* byte strings that programs write

VARIABLES
    value,      \* the account as its transaction sees it
    stored      \* the account as the next transaction will find it

plainVars == <<value, stored>>

Account == [lamports : Number, owner : Number, slot : Slot, commit_seq : Number,
            mode : Modes, flags : Number, data : SeqOf(Byte, MaxLen)]

(* Data cut or filled up with zeros to a length, and data written at an offset. *)
Resized(data, len) ==
    [i \in 1..len |-> IF i <= Len(data) THEN data[i] ELSE 0]

WrittenAt(data, offset, chunk) ==
    LET end == offset + Len(chunk)
    IN  [i \in 1..(IF end > Len(data) THEN end ELSE Len(data)) |->
            IF i \in offset + 1 .. end THEN chunk[i - offset]
            ELSE IF i <= Len(data) THEN data[i] ELSE 0]

-----------------------------------------------------------------------------
PlainInit == value \in Account /\ stored = value

SetValue(account) == value' = account /\ UNCHANGED stored

SetNumber(field, to) == SetValue([value EXCEPT ![field] = to])

SetLifecycle(mode, slot) ==
    /\ ValidTransition(value.mode, mode, value.slot, slot)
    /\ SetValue([value EXCEPT !.mode = mode, !.slot = slot])

SetData(data) == SetValue([value EXCEPT !.data = data])

Store == stored' = value /\ UNCHANGED value

Abandon == value' = stored /\ UNCHANGED stored

PlainNext ==
    \/ Store
    \/ Abandon
    \/ \E field \in {"lamports", "owner", "commit_seq", "flags"}, to \in Number :
           SetNumber(field, to)
    \/ \E mode \in Modes, slot \in Slot : SetLifecycle(mode, slot)
    \/ \E len \in 0..MaxLen : SetData(Resized(value.data, len))
    \/ \E chunk \in Chunk : SetData(chunk) \/ SetData(value.data \o chunk)
    \/ \E offset \in 0..MaxLen, chunk \in Chunk :
           SetData(WrittenAt(value.data, offset, chunk))

PlainSpec == PlainInit /\ [][PlainNext]_plainVars
=============================================================================
