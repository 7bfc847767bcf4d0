------------------------------ MODULE MagicRoot ------------------------------
(***************************************************************************)
(* The MagicRoot builtin (programs/magic-root-program) and the way its     *)
(* instructions are composed (programs/magic-root-interface).              *)
(***************************************************************************)
EXTENDS ProgramRuntime

CONSTANTS
    Root,       \* the MagicRoot program
    Payer,      \* account 0 of the transaction
    AuthorityKey   \* the key engine-internal transactions are signed with

(* MagicRootInstruction::compose: the target is writable, and PostFinalize  *)
(* brings the accounts of its actions, unsigned.                            *)
ActionMetas(actions) ==
    LET keys == UNION {DOMAIN actions[i].metas : i \in DOMAIN actions}
        programs == {actions[i].program : i \in DOMAIN actions}
    IN  [k \in keys \cup programs |->
            [w |-> \E i \in DOMAIN actions : k \in DOMAIN actions[i].metas /\ actions[i].metas[k].w,
             s |-> FALSE]]

Compose(op, target) ==
    LET metas == IF op.kind = "PostFinalize" THEN ActionMetas(op.actions) ELSE <<>>
    IN  [program |-> Root, op |-> op @@ [target |-> target],
         metas |-> (target :> [w |-> TRUE, s |-> FALSE]) @@ metas]

(* AccountFieldPatch::sequence and compose_account: every field but the     *)
(* flags, then the flags.                                                   *)
Sequence(account) ==
    <<[kind |-> "Lamports", lamports |-> account.lamports],
      [kind |-> "Lifecycle", mode |-> account.mode, slot |-> account.slot],
      [kind |-> "Owner", owner |-> account.owner],
      [kind |-> "DataLen", len |-> Len(account.data)],
      [kind |-> "DataAt", offset |-> 0, data |-> account.data]>>

ComposeAccount(target, account) ==
    LET patches == Sequence(account)
        flags == [kind |-> "Finalize", exec |-> account.exec]
    IN  [i \in 1..(Len(patches) + 1) |->
            Compose(IF i <= Len(patches) THEN patches[i] ELSE flags, target)]

-----------------------------------------------------------------------------
(* AccountFieldPatch::apply *)

PatchKinds == {"Lamports", "Lifecycle", "Owner", "DataLen", "DataAt"}

SetLifecycle(account, mode, slot) ==
    [account EXCEPT !.mode = mode, !.slot = slot, !.dirty = TRUE,
                    !.moded = @ \/ mode # account.mode]

SetDataAt(data, offset, bytes) ==
    LET n == IF Len(data) > offset + Len(bytes) THEN Len(data) ELSE offset + Len(bytes)
    IN  [i \in 1..n |-> IF i \in (offset + 1)..(offset + Len(bytes)) THEN bytes[i - offset]
                        ELSE IF i <= Len(data) THEN data[i] ELSE 0]

Apply(patch, account) ==
    CASE patch.kind = "Lamports" ->
            [account EXCEPT !.lamports = patch.lamports, !.dirty = @ \/ patch.lamports # account.lamports]
      [] patch.kind = "Owner" ->
            [account EXCEPT !.owner = patch.owner, !.dirty = @ \/ patch.owner # account.owner]
      [] patch.kind = "Lifecycle" -> SetLifecycle(account, patch.mode, patch.slot)
      [] patch.kind = "DataLen" ->
            [account EXCEPT !.data = Resized(@, patch.len), !.dirty = TRUE]
      [] patch.kind = "DataAt" ->
            [account EXCEPT !.data = SetDataAt(@, patch.offset, patch.data), !.dirty = TRUE]

PatchedLength(patch, account) ==
    IF patch.kind \in {"DataLen", "DataAt"} THEN Len(Apply(patch, account).data) ELSE 0

ValidPatch(patch, account) ==
    patch.kind = "Lifecycle" => ValidTransition(account.mode, patch.mode, account.slot, patch.slot)

(* The difference to the target's balance comes from account 0, which must  *)
(* not be the target itself: it is borrowed already.                        *)
PatchAccount(t, target, patch) ==
    LET old == t.acct[target]
        new == Apply(patch, old)
        difference == new.lamports - old.lamports
        patched == [t EXCEPT !.acct[target] = new]
    IN  Checked(Checked(t, <<<<PatchedLength(patch, old) > MaxData, "InvalidRealloc">>,
                             <<~ValidPatch(patch, old), "InvalidArgument">>>>, patched),
                <<<<target = Payer, "AccountBorrowFailed">>,
                  <<difference > t.acct[Payer].lamports, "ArithmeticOverflow">>>>,
                IF difference = 0 THEN patched
                ELSE [patched EXCEPT !.acct[Payer].lamports = @ - difference,
                                     !.acct[Payer].dirty = TRUE])

Finalize(t, target, exec) ==
    LET flagged == IF t.acct[target].exec = exec THEN t
                   ELSE [t EXCEPT !.acct[target].exec = exec, !.acct[target].dirty = TRUE]
        entry == LoadedEntry(t.acct[target].data)
    IN  Checked(flagged, <<<<exec /\ entry.type # "Loaded", "ProgramEnvironmentSetupFailure">>>>,
                IF exec THEN StoreModified(flagged, target, entry) ELSE flagged)

Delete(t, target) ==
    LET a == t.acct[target]
        closed == [t EXCEPT !.acct[target] = SetLifecycle(a, "Closed", a.slot)]
    IN  Checked(t, <<<<~ValidTransition(a.mode, "Closed", a.slot, a.slot), "InvalidArgument">>>>,
                IF a.exec THEN StoreModified(closed, target, Entry("Closed", <<>>)) ELSE closed)

-----------------------------------------------------------------------------
(* processor::authorize: at the transaction level, or directly below a      *)
(* builtin that used the MagicRoot entry point; paid by the authority.      *)
AuthorizeChecks(t) ==
    LET nested == Len(t.stack) > 1
        caller == IF nested THEN t.stack[Len(t.stack) - 1].program ELSE "none"
    IN  <<<<nested /\ caller = Root, "CallDepth">>,
          <<nested /\ ~IsBuiltin(t, caller), "CallDepth">>,
          <<nested /\ ~IsMagicRootAuthorized(t), "MissingRequiredSignature">>,
          <<Payer # AuthorityKey, "MissingRequiredSignature">>>>

CanWriteback(account) ==
    \/ IsWritable(account.mode)
    \/ account.mode \in {"Undelegating", "Closed"} /\ account.moded

(* After the actions, every writable account must pass the write-back rule. *)
PostFinalizeEnd(t) ==
    LET f == Top(t) IN
    Checked(t, <<<<\E k \in DOMAIN f.accts : f.accts[k].w /\ ~CanWriteback(t.acct[k]),
                   "Immutable">>>>, t)

(* dispatch, for every instruction but PostFinalize with actions to run. *)
Dispatch(t, op) ==
    CASE op.kind \in PatchKinds -> PatchAccount(t, op.target, op)
      [] op.kind = "Finalize" -> Finalize(t, op.target, op.exec)
      [] op.kind = "Delete" -> Delete(t, op.target)
      [] op.kind = "Nonce" -> t
      [] op.kind = "CompareAndPatch" ->
            Checked(t, <<<<op.expected # [f \in DOMAIN op.expected |-> t.acct[op.target][f]],
                           "AccountChanged">>>>,
                    PatchAccount(t, op.target, op.patch))
      [] op.kind = "PostFinalize" -> PostFinalizeEnd(t)

(* The builtin's step: the entry point consumes units, authorizes, and runs *)
(* the instruction; PostFinalize invokes its next action and stays.         *)
RunRoot(t) ==
    LET f == Top(t)
        n == Len(t.stack)
        begun == t.meter # f.units
        ready == IF begun THEN t
                 ELSE LET paid == Consume(t, 1)
                      IN  Checked(paid, AuthorizeChecks(t), paid)
        next == f.op.actions[1]
        popped == [ready EXCEPT !.stack[n].op.actions = Tail(@)]
        done == Dispatch(ready, f.op)
    IN  IF ~IsOk(ready) THEN ready
        ELSE IF f.op.kind = "PostFinalize" /\ f.op.actions # <<>>
        THEN NativeInvokeAs(popped, f.op.source, next)
        ELSE IF IsOk(done) THEN ExitBuiltin(done) ELSE done
=============================================================================
