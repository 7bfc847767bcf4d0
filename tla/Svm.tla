-------------------------------- MODULE Svm --------------------------------
(***************************************************************************)
(* One transaction after another through the SVM (solana/svm, called by    *)
(* the executors and the simulator of processor): accounts loaded, the     *)
(* program cache replenished, the instructions run on ProgramRuntime, rent *)
(* and access verified, and the result committed by the caller.            *)
(*                                                                         *)
(*   db      stored accounts: what the next transaction loads              *)
(*   cache   the ProgramCache shared by executors and simulator            *)
(*   tx      the transaction: writable keys `w`, signers `s`, instructions *)
(*           `ixs`, units and data limit, and whether it is simulated      *)
(*   tc      its invoke context, status: its result so far                 *)
(*   pre     the accounts it loaded, next: its next top-level instruction  *)
(*   todo    the transactions behind it                                    *)
(*   leaked  programs whose cached entry is of a simulated transaction     *)
(***************************************************************************)
EXTENDS MagicRoot

CONSTANTS
    Stores,       \* stores the node may start with
    Streams,      \* sequences of transactions submitted
    Builtins,     \* programs registered as builtins
    CpiIxs,       \* instructions programs invoke
    RootIxs,      \* instructions builtins hand to MagicRoot
    Balances,     \* balances a program writes
    RelaxRent     \* feature relax_post_exec_min_balance_check

VARIABLES db, cache, tx, tc, phase, pre, next, status, todo, leaked

vars == <<db, cache, tx, tc, phase, pre, next, status, todo, leaked>>

NoTx == [w |-> {}, s |-> {}, ixs |-> <<>>, units |-> 0, limit |-> 0, sim |-> FALSE]

DefaultAccount ==
    [lamports |-> 0, data |-> <<>>, owner |-> "sys", exec |-> FALSE, mode |-> "Missing",
     slot |-> 0, dirty |-> FALSE, moded |-> FALSE]

EmptyContext == NewInvokeContext([k \in Keys |-> DefaultAccount], 0, 0, <<>>)

Init ==
    /\ db \in Stores
    /\ cache = [p \in Builtins |-> Entry("Builtin", <<>>)]
    /\ tx = NoTx /\ tc = EmptyContext /\ pre = tc.acct
    /\ phase = "idle" /\ next = 1 /\ status = "Ok" /\ todo \in Streams /\ leaked = {}

LamportsSum(accounts) == MapThenSumSet(LAMBDA k : accounts[k].lamports, Keys)

DataSize(accounts) == MapThenSumSet(LAMBDA k : Len(accounts[k].data), Keys)

-----------------------------------------------------------------------------
(* Loading.                                                                 *)

LoadTransactionAccount(k) == IF k \in DOMAIN db THEN db[k] ELSE DefaultAccount

(* The data of all accounts counts against the limit; every program named   *)
(* must be stored and owned by a loader.                                    *)
LoadError(t, accounts) ==
    LET programs == {t.ixs[i].program : i \in DOMAIN t.ixs}
    IN  IF DataSize(accounts) > t.limit THEN "MaxLoadedAccountsDataSizeExceeded"
        ELSE IF ~(programs \subseteq DOMAIN db) THEN "ProgramAccountNotFound"
        ELSE IF \E p \in programs : db[p].owner \notin Loaders THEN "InvalidProgramForExecution"
        ELSE "Ok"

(* replenish_program_cache: executable accounts of a loader, from the       *)
(* shared cache or loaded into it.                                          *)
Executables(accounts) ==
    {k \in DOMAIN accounts : accounts[k].exec /\ accounts[k].owner \in Loaders}

ReplenishProgramCache(accounts) ==
    [k \in Executables(accounts) |->
        IF k \in DOMAIN cache THEN cache[k] ELSE LoadedEntry(accounts[k].data)]

Load ==
    LET t == Head(todo)
        accounts == [k \in Keys |-> LoadTransactionAccount(k)]
        entries == ReplenishProgramCache(accounts)
        error == LoadError(t, accounts)
    IN  /\ phase = "idle" /\ todo # <<>>
        /\ tx' = t /\ todo' = Tail(todo) /\ next' = 1 /\ pre' = accounts
        /\ status' = error
        /\ phase' = IF error = "Ok" THEN "run" ELSE "done"
        /\ tc' = NewInvokeContext(accounts, Len(t.ixs), t.units, entries)
        /\ cache' = IF error = "Ok" THEN entries @@ cache ELSE cache
        /\ UNCHANGED <<db, leaked>>

-----------------------------------------------------------------------------
(* process_message.                                                         *)

Running == phase = "run" /\ IsOk(tc) /\ tc.stack # <<>>

TopFrame == Top(tc)

Advance(t) == tc' = t /\ UNCHANGED <<db, cache, tx, phase, pre, next, status, todo, leaked>>

(* Top-level flags are the message's. *)
TopLevelFrame(ix) ==
    NewFrame(tc, [ix EXCEPT !.metas = [k \in DOMAIN ix.metas |->
                                         [w |-> k \in tx.w, s |-> k \in tx.s]]], "top")

NextInstruction ==
    /\ phase = "run" /\ IsOk(tc) /\ tc.stack = <<>> /\ next <= Len(tx.ixs)
    /\ tc' = ProcessInstruction(tc, TopLevelFrame(tx.ixs[next]))
    /\ next' = next + 1
    /\ UNCHANGED <<db, cache, tx, phase, pre, status, todo, leaked>>

(* An SBF program. *)
Sbf == Running /\ FindEntry(tc, TopFrame.program).type = "Loaded"

StoreView(k, v) == Advance([Consume(tc, 1) EXCEPT !.stack[Len(tc.stack)].view[k] = v])

StoreLamports(k, v) ==
    /\ Sbf /\ tc.meter > 0 /\ k \in DOMAIN TopFrame.view
    /\ StoreView(k, [TopFrame.view[k] EXCEPT !.lamports = v])

StoreOwner(k, o) ==
    /\ Sbf /\ tc.meter > 0 /\ k \in DOMAIN TopFrame.view
    /\ StoreView(k, [TopFrame.view[k] EXCEPT !.owner = o])

StoreLen(k, n) ==
    /\ Sbf /\ tc.meter > 0 /\ k \in DOMAIN TopFrame.view
    /\ StoreView(k, [TopFrame.view[k] EXCEPT !.len = n])

StoreData(k, i, byte) ==
    LET region == TopFrame.view[k].region
        stored == StoreByte(Consume(tc, 1), k, region, i, byte)
    IN  /\ Sbf /\ tc.meter > 0 /\ k \in DOMAIN TopFrame.view
        /\ Advance([stored EXCEPT
                      !.stack[Len(tc.stack)].view[k].region = StoreRegion(tc, k, region, i)])

CallProgram(ix, fault) == Sbf /\ Advance(CpiCommon(tc, ix, fault))

ExitProgram == Sbf /\ Advance(ExitSbf(tc))

(* A program's own error, or a fault of the machine, which also takes the   *)
(* units that are left.                                                     *)
AbortProgram ==
    /\ Sbf
    /\ \/ Advance(Failed(tc, "ProgramError"))
       \/ Advance(Failed([tc EXCEPT !.meter = 0], "ProgramFailedToComplete"))

(* A builtin other than MagicRoot. *)
Native == Running /\ IsBuiltin(tc, TopFrame.program) /\ TopFrame.program # Root

NativeWrites(t, f, k) ==
    {SetLamports(t, f, k, v) : v \in Balances}
    \cup {AddLamports(t, f, k, d) : d \in {-1, 1}}
    \cup {SetOwner(t, f, k, o) : o \in Builtins \ {Root}}
    \cup {SetDataLength(t, f, k, n) : n \in 0..(MaxData + 1)}
    \cup {SetDataFromSlice(t, f, k, d) : d \in Elf}
    \cup {ExtendFromSlice(t, f, k, <<1>>)}
    \cup {WriteDataMut(t, f, k, i, 1) : i \in DOMAIN t.acct[k].data}
    \cup {SetExecutable(t, f, k, b) : b \in BOOLEAN}

NativeWrite(k) ==
    /\ Native /\ tc.meter > 0 /\ k \in DOMAIN TopFrame.accts
    /\ \E t \in NativeWrites(Consume(tc, 1), TopFrame, k) : Advance(t)

NativeWork == Native /\ tc.meter > 0 /\ Advance(Consume(tc, 1))

NativeCall(ix) == Native /\ tc.meter > 0 /\ Advance(NativeInvokeSigned(Consume(tc, 1), ix))

NativeMagicRoot(ix) == Native /\ tc.meter > 0 /\ Advance(NativeInvokeMagicRoot(Consume(tc, 1), ix))

NativeExit == Native /\ Advance(ExitBuiltin(tc))

NativeError == Native /\ Advance(Failed(tc, "InvalidArgument"))

RootStep == Running /\ TopFrame.program = Root /\ Advance(RunRoot(tc))

-----------------------------------------------------------------------------
(* Verification.                                                            *)

GetAccountRentState(a) ==
    IF a.lamports = 0 THEN "Uninitialized"
    ELSE IF Exempt(a) \/ a.mode = "Magic" THEN "RentExempt" ELSE "RentPaying"

(* Under the feature an account that was funded counts as exempt, and stays *)
(* so while it keeps owner, data and balance.                               *)
PreRentState(a) ==
    IF RelaxRent /\ GetAccountRentState(a) = "RentPaying" THEN "RentExempt"
    ELSE GetAccountRentState(a)

Grandfathered(old, new) ==
    /\ RelaxRent /\ PreRentState(old) = "RentExempt"
    /\ new.lamports >= old.lamports /\ Len(new.data) <= Len(old.data) /\ new.owner = old.owner

TransitionAllowed(old, new) ==
    \/ GetAccountRentState(new) \in {"Uninitialized", "RentExempt"}
    \/ Grandfathered(old, new)
    \/ /\ PreRentState(old) = "RentPaying"
       /\ Len(new.data) = Len(old.data) /\ new.lamports <= old.lamports

VerifyError ==
    IF \E k \in tx.w : ~TransitionAllowed(pre[k], tc.acct[k]) THEN "InsufficientFundsForRent"
    ELSE IF LamportsSum(tc.acct) # LamportsSum(pre) THEN "UnbalancedTransaction"
    ELSE "Ok"

IsPrivileged == \A i \in DOMAIN tx.ixs : tx.ixs[i].program = Root

(* Mutant: the payer is not checked. *)
AccessErrorPayerless ==
    IF \E k \in tx.w \ {Payer} : ~CanWriteback(tc.acct[k]) /\ ~IsPrivileged
    THEN "InvalidWritableAccount" ELSE "Ok"

AccessError ==
    IF \E k \in tx.w \ {Payer} : ~CanWriteback(tc.acct[k]) /\ ~IsPrivileged
    THEN "InvalidWritableAccount"
    ELSE IF tc.acct[Payer].dirty /\ ~CanWriteback(tc.acct[Payer]) THEN "InvalidAccountForFee"
    ELSE "Ok"

(* ProgramCache::merge *)
Merge(entries) ==
    LET closed == {p \in DOMAIN entries : entries[p].type = "Closed"}
        kept == [p \in (DOMAIN entries \cup DOMAIN cache) \ closed |->
                    IF p \in DOMAIN entries THEN entries[p] ELSE cache[p]]
    IN  kept

Finished == phase = "run" /\ (~IsOk(tc) \/ (tc.stack = <<>> /\ next > Len(tx.ixs)))

(* Where the entries that are shared come from. *)
Leak(error) ==
    IF error # "Ok" THEN leaked
    ELSE IF tx.sim THEN leaked \cup DOMAIN tc.modified ELSE leaked \ DOMAIN tc.modified

(* Mutant: entries are shared before access is checked. *)
VerifySharesEarly ==
    LET verified == IF IsOk(tc) THEN VerifyError ELSE tc.err
        error == IF verified = "Ok" THEN AccessError ELSE verified
    IN  /\ Finished
        /\ status' = error /\ phase' = "done"
        /\ cache' = IF verified = "Ok" THEN Merge(tc.modified) ELSE cache
        /\ leaked' = Leak(error)
        /\ UNCHANGED <<db, tx, tc, pre, next, todo>>

(* The changed program entries are shared when the transaction passed,      *)
(* simulated or not.                                                        *)
Verify ==
    LET verified == IF IsOk(tc) THEN VerifyError ELSE tc.err
        error == IF verified = "Ok" THEN AccessError ELSE verified
    IN  /\ Finished
        /\ status' = error /\ phase' = "done"
        /\ cache' = IF error = "Ok" THEN Merge(tc.modified) ELSE cache
        /\ leaked' = Leak(error)
        /\ UNCHANGED <<db, tx, tc, pre, next, todo>>

(* commit_state_transitions: an executor stores what a successful           *)
(* transaction dirtied, closed accounts leave the store; the simulator      *)
(* drops everything.                                                        *)
Dirtied == {k \in Keys : tc.acct[k].dirty}

Stored(a) == [a EXCEPT !.dirty = FALSE, !.moded = FALSE]

CommitStateTransitions ==
    LET closed == {k \in Dirtied : tc.acct[k].mode = "Closed"}
    IN  [k \in (DOMAIN db \cup Dirtied) \ closed |->
            IF k \in Dirtied THEN Stored(tc.acct[k]) ELSE db[k]]

Commit ==
    /\ phase = "done"
    /\ db' = IF status = "Ok" /\ ~tx.sim THEN CommitStateTransitions ELSE db
    /\ phase' = "idle" /\ tx' = NoTx /\ tc' = EmptyContext /\ pre' = EmptyContext.acct
    /\ next' = 1 /\ status' = "Ok"
    /\ UNCHANGED <<cache, todo, leaked>>

Step ==
    \/ \E k \in Keys, v \in Balances : StoreLamports(k, v)
    \/ \E k \in Keys, o \in Builtins \ {Root} : StoreOwner(k, o)
    \/ \E k \in Keys, n \in 0..MaxData : StoreLen(k, n)
    \/ \E k \in Keys, i \in 1..MaxData : StoreData(k, i, 1)
    \/ \E ix \in CpiIxs, fault \in CpiFaults \cup {"none"} : CallProgram(ix, fault)
    \/ ExitProgram \/ AbortProgram
    \/ \E k \in Keys : NativeWrite(k)
    \/ \E ix \in CpiIxs : NativeCall(ix)
    \/ \E ix \in RootIxs : NativeMagicRoot(ix)
    \/ NativeWork \/ NativeExit \/ NativeError \/ RootStep

Next ==
    \/ Load \/ NextInstruction \/ Step \/ Verify \/ Commit

Spec == Init /\ [][Next]_vars

-----------------------------------------------------------------------------
(* Properties.                                                              *)

(* What is kept beside the accounts agrees with them.  lamports_delta and   *)
(* resize_delta are the change of the transaction's balances and, where no  *)
(* privileged patch resizes, of its data, and growth stays within its       *)
(* limit: push, pop and commit read them.  And while an SBF program runs,   *)
(* the region mapping an account is as long as its data, and writable only  *)
(* if the program may change the data now: whatever callees did to length,  *)
(* owner or mode, the regions were mapped again before it continues.        *)
(* Accounts that are executable are exempt: a call passes them as they are  *)
(* and does not map them again.                                             *)
BookkeepingIsExact ==
    /\ (phase = "run" /\ IsOk(tc)) =>
           /\ tc.delta = LamportsSum(tc.acct) - LamportsSum(pre)
           /\ ~IsPrivileged => tc.growth = DataSize(tc.acct) - DataSize(pre)
           /\ tc.growth <= MaxGrowth
    /\ Sbf => \A k \in DOMAIN TopFrame.view :
           LET region == TopFrame.view[k].region IN
           ~tc.acct[k].exec =>
               /\ region.len = Len0(tc, k)
               /\ region.ok => CanDataBeChanged(tc, TopFrame, k)

(* Data, owner and a debit of an account change only by a frame that holds  *)
(* it writable, in a writable mode, and whose program owns it, whichever    *)
(* way the change is made: a store through a mapped region, the copy of a   *)
(* caller's buffer before a CPI, the copy at exit, a builtin's call.        *)
(* MagicRoot alone is exempt.                                               *)
ChangedBy(k) ==
    \/ tc'.acct[k].data # tc.acct[k].data
    \/ tc'.acct[k].owner # tc.acct[k].owner
    \/ tc'.acct[k].lamports < tc.acct[k].lamports

OwnerWrites ==
    [][ \A k \in Keys :
          phase = "run" /\ phase' = "run" /\ ChangedBy(k) =>
            \/ TopFrame.program = Root
            \/ CanDataBeChanged(tc, TopFrame, k)
            \/ IsOwned(tc, TopFrame, k) /\ IsWritableIn(TopFrame, k) /\ IsMutable(tc, k)
      ]_vars

(* A transaction that passes changed only accounts its message declares     *)
(* writable, and none it leaves in a mode the engine must not write back,   *)
(* unless every instruction of it is MagicRoot's own.                       *)
CommitRespectsAccess ==
    phase = "done" /\ status = "Ok" =>
        \A k \in Dirtied :
            k \in tx.w /\ (CanWriteback(tc.acct[k]) \/ (IsPrivileged /\ k # Payer))

(* The authority a builtin passes down is for the child it invokes and for  *)
(* nothing below or after it: MagicRoot is authorized exactly in the frame  *)
(* entered through its entry point, and a frame's effective caller is the   *)
(* source program of PostFinalize exactly in the frames of its actions.     *)
AuthorityIsScoped ==
    phase = "run" /\ IsOk(tc) /\ tc.stack # <<>> =>
        LET n == Len(tc.stack)
            caller == IF n = 1 THEN "none" ELSE tc.stack[n - 1].program
        IN  /\ IsMagicRootAuthorized(tc) <=> TopFrame.via = "magic"
            /\ EffectiveCaller(tc) =
                 IF TopFrame.via = "as" THEN tc.stack[n - 1].op.source ELSE caller

(* Between transactions a cached program is the one the store holds: an     *)
(* upgrade or a removal reaches the shared cache with its commit, and a     *)
(* failed one does not.  The entries of a simulation, whose accounts are    *)
(* dropped, are the exception.                                              *)
CachedAsStored(p) == cache[p] = LoadedEntry(db[p].data)

CachedPrograms == (DOMAIN cache \ Builtins) \cap Executables(db)

CacheMatchesStore == phase = "idle" => \A p \in CachedPrograms \ leaked : CachedAsStored(p)

(* Without the exception; the code does not keep this. *)
SimulationLeavesCache == phase = "idle" => \A p \in CachedPrograms : CachedAsStored(p)
=============================================================================
