--------------------------- MODULE ProgramRuntime ---------------------------
(***************************************************************************)
(* Instruction invocation (solana/program-runtime): frames entered and     *)
(* left, the parameters an SBF program sees, the CPI system call, and the  *)
(* entry points of builtins.                                               *)
(*                                                                         *)
(* The context of TransactionContext gains the fields of InvokeContext:    *)
(*   meter          compute units left                                     *)
(*   entries        the batch's program cache, modified: its own changes   *)
(*   magicRoot      trace index authorized by native_invoke_magic_root     *)
(*   nativeCaller   program and stack height set by native_invoke_as       *)
(* A frame holds the instruction, how it was invoked, and for an SBF       *)
(* program its serialized parameters: `view[k]` is the buffer's lamports,  *)
(* owner and data length of account k and the mapped region of its data.   *)
(* AccountInfo::data's length and the serialized length are one field, as  *)
(* the SDK keeps them.  What a program computes is not modelled: an SBF    *)
(* program may store anything it can address, call and return at any time. *)
(***************************************************************************)
EXTENDS TransactionContext, TLC

CONSTANTS
    MaxIncrease,  \* MAX_PERMITTED_DATA_INCREASE
    Derived,      \* Derived[p]: keys program p can sign for
    Elf           \* data that loads and verifies as a program

ASSUME RuntimeAssumption == MaxIncrease \in Nat

Loaders == {"loader", "loader0", "native"}

NoCaller == [program |-> "none", height |-> 0]

NewInvokeContext(accounts, instructions, units, cache) ==
    NewContext(accounts, instructions) @@
    [meter |-> units, entries |-> cache, modified |-> <<>>,
     magicRoot |-> 0, nativeCaller |-> NoCaller]

(* ProgramCacheEntry: its type, and the data it was loaded from. *)
Entry(type, data) == [type |-> type, elf |-> data]

(* ProgramCacheForTxBatch::find *)
FindEntry(t, p) ==
    IF p \in DOMAIN t.modified THEN t.modified[p]
    ELSE IF p \in DOMAIN t.entries THEN t.entries[p] ELSE Entry("Missing", <<>>)

IsBuiltin(t, p) == FindEntry(t, p).type = "Builtin"

(* ProgramCacheEntry::new *)
LoadedEntry(data) == Entry(IF data \in Elf THEN "Loaded" ELSE "FailedVerification", data)

StoreModified(t, p, entry) == [t EXCEPT !.modified = (p :> entry) @@ @]

Consume(t, units) ==
    Checked([t EXCEPT !.meter = IF @ < units THEN 0 ELSE @ - units],
            <<<<t.meter < units, "ComputationalBudgetExceeded">>>>,
            [t EXCEPT !.meter = @ - units])

-----------------------------------------------------------------------------
(* Serialized parameters.                                                   *)

IsLoaderDeprecated(t, f) == t.acct[f.program].owner = "loader0"

RegionSize(t, f, original) == IF IsLoaderDeprecated(t, f) THEN original ELSE original + MaxIncrease

NewRegion(t, f, k, original) ==
    [len |-> Len0(t, k), reserved |-> RegionSize(t, f, original),
     ok |-> CanDataBeChanged(t, f, k)]

SerializeParameters(t, f) ==
    [k \in DOMAIN f.accts |->
        [lamports |-> t.acct[k].lamports, owner |-> t.acct[k].owner,
         len |-> Len0(t, k), original |-> Len0(t, k),
         region |-> NewRegion(t, f, k, Len0(t, k))]]

(* Each field is written back only where the buffer differs. *)
SyncLamports(t, f, k, v) == IF t.acct[k].lamports = v THEN t ELSE SetLamports(t, f, k, v)
SyncLength(t, f, k, n) == IF Len0(t, k) = n THEN t ELSE SetDataLength(t, f, k, n)
SyncOwner(t, f, k, o) == IF t.acct[k].owner = o THEN t ELSE SetOwner(t, f, k, o)

(* Loader v1 keeps the length the account was serialized with, and the      *)
(* owner.                                                                   *)
DeserializeAbiV0(t, f, k) ==
    SyncLength(SyncLamports(t, f, k, f.view[k].lamports), f, k, f.view[k].original)

(* The owner is last, so that the balance and the data may still change. *)
DeserializeAbiV1(t, f, k) ==
    LET v == f.view[k]
        paid == SyncLamports(t, f, k, v.lamports)
        grown == Checked(paid, <<<<v.len - v.original > MaxIncrease \/ v.len > MaxData,
                                   "InvalidRealloc">>>>,
                         SyncLength(paid, f, k, v.len))
    IN  IF IsOk(grown) THEN SyncOwner(grown, f, k, v.owner) ELSE grown

DeserializeParameters(t, f) ==
    LET One(k, u) == IF IsLoaderDeprecated(u, f) THEN DeserializeAbiV0(u, f, k)
                     ELSE DeserializeAbiV1(u, f, k)
    IN  FoldSet(One, t, DOMAIN f.view)

-----------------------------------------------------------------------------
(* Frames.                                                                  *)

(* prepare_next_cpi_instruction: metas of one account are merged, so that   *)
(* an instruction gives every account it names one pair of flags.           *)
PrepareNextCpi(t, ix, signers) ==
    LET f == Top(t) IN
    Checked(t, <<<<~(DOMAIN ix.metas \subseteq DOMAIN f.accts), "MissingAccount">>,
                 <<\E k \in DOMAIN ix.metas \cap DOMAIN f.accts :
                      \/ ix.metas[k].w /\ ~f.accts[k].w
                      \/ ix.metas[k].s /\ ~f.accts[k].s /\ k \notin signers,
                   "PrivilegeEscalation">>,
                 <<ix.program \notin DOMAIN f.accts, "MissingAccount">>>>, t)

NewFrame(t, ix, via) ==
    [index |-> 0, program |-> ix.program, accts |-> ix.metas, op |-> ix.op, via |-> via,
     view |-> <<>>, calls |-> <<>>, units |-> t.meter,
     magicRoot |-> t.magicRoot, nativeCaller |-> t.nativeCaller]

(* InvokeContext::push: a program may call itself, but not be re-entered.   *)
Push(t, frame) ==
    LET running == {t.stack[i].program : i \in DOMAIN t.stack} IN
    Checked(t, <<<<frame.program \in running /\ frame.program # Top(t).program,
                   "ReentrancyNotAllowed">>>>,
            PushFrame(t, frame))

(* vm::execute up to the program's first instruction. *)
EnterVm(t) == [t EXCEPT !.stack[Len(t.stack)].view = SerializeParameters(t, Top(t))]

(* process_executable_chain up to there. *)
Start(t) ==
    LET f == Top(t)
        entry == FindEntry(t, f.program).type
    IN  IF ~IsOk(t) THEN t
        ELSE Checked(t, <<<<t.acct[f.program].owner \notin Loaders, "UnsupportedProgramId">>,
                          <<entry \notin {"Builtin", "Loaded"}, "UnsupportedProgramId">>>>,
                     IF entry = "Builtin" THEN t ELSE EnterVm(t))

ProcessInstruction(t, frame) == Start(Push(t, frame))

-----------------------------------------------------------------------------
(* The CPI system call.                                                     *)

(* Argument faults, each with the error of the translation it fails.        *)
InstructionFaults == {"MaxInstructionAccountsExceeded", "MaxInstructionDataLenExceeded",
                      "InvalidBool", "AccessViolation"}
SignerFaults == {"TooManySigners", "MaxSeedLengthExceeded", "BadSeeds"}
ProgramFaults == {"ProgramNotSupported"}
AccountFaults == {"MaxInstructionAccountInfosExceeded", "InvalidPointer", "MissingInfo"}
CpiFaults == InstructionFaults \cup SignerFaults \cup ProgramFaults \cup AccountFaults

FaultIn(t, fault, faults) == Checked(t, <<<<fault \in faults, fault>>>>, t)

(* Executable accounts are passed as they are. *)
Translated(t, ix) == {k \in DOMAIN ix.metas : ~t.acct[k].exec}

TranslateAccounts(t, ix, fault) ==
    LET v == Top(t).view IN
    Checked(FaultIn(t, fault, AccountFaults),
            <<<<\E k \in Translated(t, ix) : v[k].len > v[k].region.reserved, "InvalidRealloc">>>>,
            t)

(* Before the call the caller's buffer is written to the accounts. *)
UpdateCalleeAccount(t, f, k) ==
    LET v == f.view[k]
        sized == SyncLength(SyncLamports(t, f, k, v.lamports), f, k, v.len)
    IN  IF IsOk(sized) THEN SyncOwner(sized, f, k, v.owner) ELSE sized

(* Mutant: only a change of length maps the caller's region again. *)
MustUpdateLength(t, f, k) == f.view[k].len # Len0(t, k)

MustUpdateCaller(t, f, k) == f.view[k].len # Len0(t, k) \/ f.view[k].owner # t.acct[k].owner

UpdateCallees(t, ix) ==
    LET f == Top(t)
        n == Len(t.stack)
        One(k, u) == UpdateCalleeAccount(u, f, k)
        calls == [k \in Translated(t, ix) |->
                    [info |-> ix.metas[k].w,
                     region |-> ix.metas[k].w \/ MustUpdateCaller(t, f, k)]]
    IN  IF ~IsOk(t) THEN t
        ELSE FoldSet(One, [t EXCEPT !.stack[n].calls = calls], Translated(t, ix))

CpiCommon(t, ix, fault) ==
    LET paid == Consume(t, 1)
        read == FaultIn(paid, fault, InstructionFaults \cup SignerFaults \cup ProgramFaults)
        prepared == PrepareNextCpi(read, ix, Derived[Top(t).program])
        ready == UpdateCallees(TranslateAccounts(prepared, ix, fault), ix)
    IN  IF IsOk(ready) THEN ProcessInstruction(ready, NewFrame(ready, ix, "signed")) ELSE ready

(* After the call the accounts are written to the caller's buffer, and the  *)
(* regions of their data are mapped again.                                  *)
UpdateCallerAccount(t, f, k) ==
    LET v == [f.view[k] EXCEPT !.lamports = t.acct[k].lamports, !.owner = t.acct[k].owner]
    IN  IF f.calls[k].info THEN [v EXCEPT !.len = Len0(t, k)] ELSE f.view[k]

(* Mutant: the region is resized, its permission is kept. *)
ResizeCallerRegion(t, f, k, v) ==
    IF f.calls[k].region /\ v.region.reserved > 0
    THEN [v EXCEPT !.region.len = Len0(t, k)] ELSE v

UpdateCallerRegion(t, f, k, v) ==
    IF f.calls[k].region /\ v.region.reserved > 0
    THEN [v EXCEPT !.region = NewRegion(t, f, k, v.original)] ELSE v

UpdateCallers(t) ==
    LET f == Top(t)
        n == Len(t.stack)
        back(k) == UpdateCallerRegion(t, f, k, UpdateCallerAccount(t, f, k))
    IN  IF ~IsOk(t) \/ t.stack = <<>> THEN t
        ELSE Checked(t, <<<<\E k \in DOMAIN f.calls :
                              f.calls[k].info /\ Len0(t, k) > f.view[k].region.reserved,
                            "InvalidRealloc">>>>,
                     [t EXCEPT !.stack[n].view = [k \in DOMAIN f.calls |-> back(k)] @@ @,
                               !.stack[n].calls = <<>>])

-----------------------------------------------------------------------------
(* Builtin entry points.                                                    *)

NativeInvokeSigned(t, ix) ==
    LET prepared == PrepareNextCpi(t, ix, Derived[Top(t).program]) IN
    IF IsOk(prepared) THEN ProcessInstruction(prepared, NewFrame(t, ix, "signed")) ELSE prepared

(* The child about to be traced is the one authorized. *)
NativeInvokeMagicRoot(t, ix) ==
    LET prepared == PrepareNextCpi(t, ix, {})
        authorized == [prepared EXCEPT !.magicRoot = t.trace + 1]
    IN  IF IsOk(prepared) THEN ProcessInstruction(authorized, NewFrame(t, ix, "magic"))
        ELSE prepared

NativeInvokeAs(t, source, ix) ==
    LET signers == {k \in DOMAIN ix.metas : ix.metas[k].s}
        prepared == PrepareNextCpi(t, ix, signers)
        named == [prepared EXCEPT
                    !.nativeCaller = [program |-> source, height |-> Len(t.stack) + 1]]
    IN  IF IsOk(prepared) THEN ProcessInstruction(named, NewFrame(t, ix, "as")) ELSE prepared

IsMagicRootAuthorized(t) == t.magicRoot # 0 /\ t.magicRoot = Top(t).index

EffectiveCaller(t) ==
    LET height == Len(t.stack) IN
    IF t.nativeCaller.height = height THEN t.nativeCaller.program
    ELSE IF height < 2 THEN "none" ELSE t.stack[height - 1].program

(* Leaving a frame: its invoker restores what it had set, then goes on. *)
(* Mutant: native_invoke_as does not restore the caller it named. *)
ReturnUnscoped(t) ==
    LET f == Top(t)
        popped == PopFrame(t)
    IN  UpdateCallers([popped EXCEPT !.magicRoot = f.magicRoot])

Return(t) ==
    LET f == Top(t)
        popped == PopFrame(t)
    IN  UpdateCallers([popped EXCEPT !.magicRoot = f.magicRoot, !.nativeCaller = f.nativeCaller])

ExitSbf(t) == LET done == DeserializeParameters(t, Top(t)) IN IF IsOk(done) THEN Return(done) ELSE done

ExitBuiltin(t) ==
    LET spent == Checked(t, <<<<t.meter = Top(t).units,
                                "BuiltinProgramsMustConsumeComputeUnits">>>>, t)
    IN  IF IsOk(spent) THEN Return(spent) ELSE spent
=============================================================================
