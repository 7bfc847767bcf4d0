------------------------- MODULE TransactionContext -------------------------
(***************************************************************************)
(* The accounts and the instruction stack of one executing transaction     *)
(* (solana/transaction-context): what a frame may do to an account, and    *)
(* what entering and leaving a frame checks.                               *)
(*                                                                         *)
(* A context `t` is a record                                               *)
(*   acct    account of every transaction key                              *)
(*   delta   lamports_delta of TransactionAccounts                         *)
(*   growth  resize_delta of TransactionAccounts                           *)
(*   trace   length of the instruction trace, cpis: CPIs among them        *)
(*   total   total_number_of_instructions_in_trace                         *)
(*   stack   frames being executed, outermost first                        *)
(*   err     "Ok", or the InstructionError that stopped execution          *)
(* Every operation maps a context to a context, and leaves one with an     *)
(* error alone: that is the `?` after every call in the code.  What an     *)
(* operation did before it failed stays done.                              *)
(*                                                                         *)
(* Left out: touched flags and return data, which nothing here reads, the  *)
(* instructions sysvar, and the shared/owned distinction of a buffer       *)
(* (CowAccount).  Borrow guards are released at the end of every handler,  *)
(* so a borrow can only fail where one handler takes two (MagicRoot).      *)
(***************************************************************************)
EXTENDS AccountMode, Sequences, FiniteSetsExt

CONSTANTS
    Keys,        \* keys of the transaction, programs included
    MaxStack,    \* instruction_stack_capacity
    MaxTrace,    \* instruction_trace_capacity
    MaxCpis,     \* MAX_CPI_TRACE_LENGTH
    MaxData,     \* MAX_ACCOUNT_DATA_LEN
    MaxGrowth,   \* MAX_ACCOUNT_DATA_GROWTH_PER_TRANSACTION
    RentPerByte  \* rent of one byte, an empty account counting as one

ASSUME ContextAssumption ==
    {MaxStack, MaxTrace, MaxCpis, MaxData, MaxGrowth, RentPerByte} \subseteq Nat

-----------------------------------------------------------------------------
(* Errors.  A step names its checks in order; the first that fails is the   *)
(* result, and nothing of the step happens.                                 *)

IsOk(t) == t.err = "Ok"

Failed(t, e) == IF IsOk(t) THEN [t EXCEPT !.err = e] ELSE t

Checked(t, checks, new) ==
    LET failing == {i \in DOMAIN checks : checks[i][1]} IN
    IF ~IsOk(t) THEN t
    ELSE IF failing = {} THEN new
    ELSE Failed(t, checks[Min(failing)][2])

-----------------------------------------------------------------------------
(* TransactionAccounts.                                                     *)

NewContext(accounts, instructions) ==
    [acct |-> accounts, delta |-> 0, growth |-> 0, trace |-> 0, cpis |-> 0,
     total |-> instructions, stack |-> <<>>, err |-> "Ok"]

Top(t) == t.stack[Len(t.stack)]

Len0(t, k) == Len(t.acct[k].data)

(* Data of length n: truncated, or filled with zeros. *)
Resized(data, n) == [i \in 1..n |-> IF i <= Len(data) THEN data[i] ELSE 0]

CanBeResized(t, old, new) ==
    <<<<new > MaxData, "InvalidRealloc">>,
      <<t.growth + (new - old) > MaxGrowth, "MaxAccountsDataAllocationsExceeded">>>>

Exempt(account) == account.lamports >= RentPerByte * (1 + Len(account.data))

-----------------------------------------------------------------------------
(* BorrowedInstructionAccount: account k as frame f sees it.                *)

IsWritableIn(f, k) == f.accts[k].w

IsOwned(t, f, k) == t.acct[k].owner = f.program

IsMutable(t, k) == IsWritable(t.acct[k].mode)

IsZeroed(data) == \A i \in DOMAIN data : data[i] = 0

DataChangeChecks(t, f, k) ==
    <<<<~IsWritableIn(f, k), "ReadonlyDataModified">>,
      <<~IsOwned(t, f, k), "ExternalAccountDataModified">>,
      <<~IsMutable(t, k), "Immutable">>>>

CanDataBeChanged(t, f, k) == \A i \in 1..3 : ~DataChangeChecks(t, f, k)[i][1]

ResizeChecks(t, f, k, n) ==
    <<<<n # Len0(t, k) /\ ~IsOwned(t, f, k), "AccountDataSizeChanged">>,
      <<n # Len0(t, k) /\ t.acct[k].mode = "Magic", "InvalidRealloc">>>>
    \o CanBeResized(t, Len0(t, k), n) \o DataChangeChecks(t, f, k)

WithData(t, k, data) ==
    [t EXCEPT !.acct[k].data = data, !.acct[k].dirty = TRUE,
              !.growth = @ + Len(data) - Len0(t, k)]

SetOwner(t, f, k, o) ==
    LET same == t.acct[k].owner = o IN
    Checked(t, <<<<~IsOwned(t, f, k) \/ ~IsWritableIn(f, k), "ModifiedProgramId">>,
                 <<~IsZeroed(t.acct[k].data), "ModifiedProgramId">>,
                 <<~same /\ ~IsMutable(t, k), "Immutable">>>>,
            IF same THEN t
            ELSE [t EXCEPT !.acct[k].owner = o, !.acct[k].dirty = TRUE])

SetLamports(t, f, k, v) ==
    LET old == t.acct[k].lamports IN
    Checked(t, <<<<~IsOwned(t, f, k) /\ v < old, "ExternalAccountLamportSpend">>,
                 <<~IsWritableIn(f, k), "ReadonlyLamportChange">>,
                 <<v # old /\ ~IsMutable(t, k), "Immutable">>>>,
            IF v = old THEN t
            ELSE [t EXCEPT !.delta = @ + (v - old), !.acct[k].lamports = v,
                           !.acct[k].dirty = TRUE])

(* checked_add_lamports and checked_sub_lamports; balances do not overflow. *)
AddLamports(t, f, k, d) ==
    Checked(t, <<<<t.acct[k].lamports + d < 0, "ArithmeticOverflow">>>>,
            SetLamports(t, f, k, t.acct[k].lamports + d))

SetDataLength(t, f, k, n) ==
    Checked(t, ResizeChecks(t, f, k, n),
            IF n = Len0(t, k) THEN t
            ELSE WithData(t, k, Resized(t.acct[k].data, n)))

SetDataFromSlice(t, f, k, data) ==
    Checked(t, ResizeChecks(t, f, k, Len(data)), WithData(t, k, data))

ExtendFromSlice(t, f, k, data) ==
    Checked(t, ResizeChecks(t, f, k, Len0(t, k) + Len(data)),
            IF data = <<>> THEN t ELSE WithData(t, k, t.acct[k].data \o data))

(* A write through get_data_mut. *)
WriteDataMut(t, f, k, i, byte) ==
    Checked(t, DataChangeChecks(t, f, k),
            WithData(t, k, [t.acct[k].data EXCEPT ![i] = byte]))

SetExecutable(t, f, k, b) ==
    LET same == t.acct[k].exec = b IN
    Checked(t, <<<<~Exempt(t.acct[k]), "ExecutableAccountNotRentExempt">>,
                 <<~IsOwned(t, f, k) \/ ~IsWritableIn(f, k), "ExecutableModified">>,
                 <<~same /\ ~IsMutable(t, k), "Immutable">>>>,
            IF same THEN t
            ELSE [t EXCEPT !.acct[k].exec = b, !.acct[k].dirty = TRUE])

-----------------------------------------------------------------------------
(* A store by the virtual machine at byte i of account k, whose data is     *)
(* mapped through `region`: within the region it goes straight to the       *)
(* account.  Elsewhere the access-violation handler decides whether the     *)
(* account grows up to the byte, inside the reserved address space.         *)

HandlerGrows(t, k, region, i) ==
    /\ region.ok
    /\ i <= region.reserved
    /\ \A c \in {1, 2} : ~CanBeResized(t, Len0(t, k), i)[c][1]
    /\ t.acct[k].mode # "Magic"

StoreByte(t, k, region, i, byte) ==
    LET grown == WithData(t, k, Resized(t.acct[k].data, i))
        base == IF i > region.len THEN grown ELSE t
    IN  Checked(t, <<<<~region.ok, "ReadonlyDataModified">>,
                     <<i > region.len /\ ~HandlerGrows(t, k, region, i), "InvalidRealloc">>>>,
                WithData(base, k, [base.acct[k].data EXCEPT ![i] = byte]))

StoreRegion(t, k, region, i) ==
    IF i > region.len /\ HandlerGrows(t, k, region, i) THEN [region EXCEPT !.len = i] ELSE region

-----------------------------------------------------------------------------
(* The instruction stack.                                                   *)

(* The trace entry is made before the depth is checked. *)
PushFrame(t, frame) ==
    LET cpi == t.stack # <<>>
        traced == [t EXCEPT !.trace = @ + 1,
                            !.cpis = IF cpi THEN @ + 1 ELSE @,
                            !.total = IF cpi THEN @ + 1 ELSE @]
        entry == [frame EXCEPT !.index = t.trace + 1]
    IN  Checked(Checked(t, <<<<cpi /\ t.delta # 0, "UnbalancedInstruction">>,
                             <<t.trace >= MaxTrace, "MaxInstructionTraceLengthExceeded">>,
                             <<cpi /\ (t.cpis >= MaxCpis \/ t.total >= MaxTrace),
                               "MaxInstructionTraceLengthExceeded">>>>,
                        traced),
                <<<<Len(t.stack) >= MaxStack, "CallDepth">>>>,
                [traced EXCEPT !.stack = Append(@, entry)])

(* A frame is always popped; an imbalance it leaves is its error. *)
PopFrame(t) ==
    LET popped == [t EXCEPT !.stack = SubSeq(@, 1, Len(@) - 1)] IN
    IF t.delta # 0 THEN Failed(popped, "UnbalancedInstruction") ELSE popped
=============================================================================
