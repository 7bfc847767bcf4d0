---------------------------- MODULE AccountImage ----------------------------
(***************************************************************************)
(* One account image in mapped storage, read without a lock while it is    *)
(* written (solana/account/src/cow: BorrowedAccount, AccountSeqLock).  The *)
(* span holds two copies of the account; the parity of a sequence number   *)
(* says which is active.  A transaction that owns the account writes the   *)
(* other copy and publishes it by advancing the sequence; scoped readers   *)
(* (AccountLoader::read, program) copy what they need and start over if    *)
(* the sequence moved.                                                     *)
(*                                                                         *)
(* A copy is a few words, read and written one at a time, in program       *)
(* order.  A word shows the account and the transaction it belongs to.     *)
(***************************************************************************)
EXTENDS Integers, Sequences, FiniteSets

CONSTANTS
    Reader,         \* threads in AccountLoader::read
    Words,          \* words of one copy
    MaxWrites,      \* bound on transactions that write the account
    MaxReads,       \* bound on the reads a thread starts
    MaxReuse        \* bound on the times the span changes hands

ASSUME AccountImageAssumption ==
    /\ Words \in Nat \ {0}
    /\ {MaxWrites, MaxReads, MaxReuse} \subseteq Nat

VARIABLES
    seq,        \* AccountHeader::sequence
    image,      \* the two copies
    writer,     \* the transaction that owns the account
    reader,
    account,    \* the account the span belongs to in the committed index
    writes

imageVars == <<seq, image, writer, reader, account, writes>>

(* The copy a sequence number selects as active; the other one is its shadow. *)
ActiveCopy(s) == 1 + (s % 2)

ShadowCopy(s) == 3 - ActiveCopy(s)

Copy(word) == [i \in 1..Words |-> word]

Word(stamp) == [account |-> account, stamp |-> stamp]

ImageInit ==
    /\ seq = 0
    /\ account = 0
    /\ image = <<Copy([account |-> 0, stamp |-> 0]), Copy([account |-> 0, stamp |-> -1])>>
    /\ writer = [pc |-> "idle"]
    /\ reader = [r \in Reader |-> [pc |-> "idle", reads |-> 0]]
    /\ writes = 0

-----------------------------------------------------------------------------
(* The owning transaction: load the view, and on its first change copy the     *)
(* active image over the shadow, word by word.                                 *)
LoadView ==
    /\ writer.pc = "idle"
    /\ writes < MaxWrites
    /\ writes' = writes + 1
    /\ writer' = [pc |-> "translate", version |-> seq, at |-> 1]
    /\ UNCHANGED <<seq, image, reader, account>>

Translate ==
    /\ writer.pc = "translate"
    /\ image' = [image EXCEPT ![ShadowCopy(writer.version)][writer.at] =
                                image[ActiveCopy(writer.version)][writer.at]]
    /\ writer' = IF writer.at < Words THEN [writer EXCEPT !.at = @ + 1]
                 ELSE [writer EXCEPT !.pc = "write", !.at = 1]
    /\ UNCHANGED <<seq, reader, account, writes>>

(* Setters change the shadow in place. *)
WriteShadow ==
    /\ writer.pc = "write"
    /\ image' = [image EXCEPT ![ShadowCopy(writer.version)][writer.at] = Word(writes)]
    /\ writer' = IF writer.at < Words THEN [writer EXCEPT !.at = @ + 1]
                 ELSE [writer EXCEPT !.pc = "commit"]
    /\ UNCHANGED <<seq, reader, account, writes>>

(* commit: publishes the shadow prepared against this sequence. *)
Commit ==
    /\ writer.pc = "commit"
    /\ seq' = IF seq = writer.version THEN seq + 1 ELSE seq
    /\ writer' = [writer EXCEPT !.pc = "published"]
    /\ UNCHANGED <<image, reader, account, writes>>

(* The batch is stored, and the account is free for the next transaction. *)
BatchStored ==
    /\ writer.pc = "published"
    /\ writer' = [pc |-> "idle"]
    /\ UNCHANGED <<seq, image, reader, account, writes>>

(* The index commit fails: the sequence goes back, the executor stops. *)
Rollback ==
    /\ writer.pc = "published"
    /\ seq' = seq - 1
    /\ writer' = [pc |-> "failed"]
    /\ UNCHANGED <<image, reader, account, writes>>

(* The transaction fails: its writes stay in the shadow. *)
AbandonShadow ==
    /\ writer.pc \in {"write", "commit"}
    /\ writer' = [pc |-> "idle"]
    /\ UNCHANGED <<seq, image, reader, account, writes>>

-----------------------------------------------------------------------------
(* A span that was freed is given to another account: the header starts over   *)
(* and the first copy is written (OwnedAccount::serialize).                    *)
Delete ==
    /\ writer.pc = "published"
    /\ account < MaxReuse
    /\ account' = account + 1
    /\ writer' = [pc |-> "header"]
    /\ UNCHANGED <<seq, image, reader, writes>>

SerializeHeader ==
    /\ writer.pc = "header"
    /\ seq' = 0
    /\ writer' = [pc |-> "serialize", at |-> 1]
    /\ UNCHANGED <<image, reader, account, writes>>

Serialize ==
    /\ writer.pc = "serialize"
    /\ image' = [image EXCEPT ![1][writer.at] = Word(writes)]
    /\ writer' = IF writer.at < Words THEN [writer EXCEPT !.at = @ + 1] ELSE [pc |-> "idle"]
    /\ UNCHANGED <<seq, reader, account, writes>>

-----------------------------------------------------------------------------
(* load finds the account's span in the reader's index snapshot and fixes the  *)
(* view to the copy that is active at that moment.                             *)
StartRead(r) ==
    /\ reader[r].pc \in {"idle", "done"}
    /\ reader[r].reads < MaxReads
    /\ writer.pc \notin {"header", "serialize"}
    /\ reader' = [reader EXCEPT ![r] =
            [pc |-> "read", reads |-> @.reads + 1, account |-> account,
             pre |-> seq, got |-> <<>>]]
    /\ UNCHANGED <<seq, image, writer, account, writes>>

ReadWord(r) ==
    /\ reader[r].pc = "read"
    /\ reader' = [reader EXCEPT ![r].got =
                    Append(@, image[ActiveCopy(reader[r].pre)][Len(@) + 1]),
                  ![r].pc = IF Len(reader[r].got) + 1 = Words THEN "check" ELSE "read"]
    /\ UNCHANGED <<seq, image, writer, account, writes>>

(* Mutant: only the choice of the copy is compared. *)
CheckReadParity(r) ==
    /\ reader[r].pc = "check"
    /\ reader' = [reader EXCEPT ![r] =
            IF ActiveCopy(@.pre) = ActiveCopy(seq) THEN [@ EXCEPT !.pc = "done"]
            ELSE [@ EXCEPT !.pc = "read", !.pre = seq, !.got = <<>>]]
    /\ UNCHANGED <<seq, image, writer, account, writes>>

(* The sequence is read again: the result counts if it did not move, else the  *)
(* view is reset to the active copy.                                           *)
CheckRead(r) ==
    /\ reader[r].pc = "check"
    /\ reader' = [reader EXCEPT ![r] =
            IF @.pre = seq THEN [@ EXCEPT !.pc = "done"]
            ELSE [@ EXCEPT !.pc = "read", !.pre = seq, !.got = <<>>]]
    /\ UNCHANGED <<seq, image, writer, account, writes>>

-----------------------------------------------------------------------------
Write == LoadView \/ Translate \/ WriteShadow \/ Commit \/ BatchStored \/ Rollback \/ AbandonShadow

Reuse == Delete \/ SerializeHeader \/ Serialize

ImageReaderStep(r) == StartRead(r) \/ ReadWord(r) \/ CheckRead(r)

ImageNext == Write \/ Reuse \/ \E r \in Reader : ImageReaderStep(r)

-----------------------------------------------------------------------------
(* Types: the sequence counts publications and both copies keep their length.  *)
ImageTypeOK ==
    /\ seq \in 0..MaxWrites
    /\ account \in 0..MaxReuse
    /\ \A c \in 1..2 : DOMAIN image[c] = 1..Words
    /\ \A r \in Reader : reader[r].pc \in {"idle", "read", "check", "done"}

(* A reader only returns words of the account it looked up.                    *)
ReadsOwnAccount ==
    \A r \in Reader : reader[r].pc = "done" =>
        \A i \in 1..Words : reader[r].got[i].account = reader[r].account

(* A step that accepts a read accepts the active image, and a step that leaves *)
(* the sequence number alone leaves the active image alone.                    *)
KeepsCommitted ==
    /\ \A r \in Reader :
          (reader[r].pc = "check" /\ reader'[r].pc = "done" /\ reader[r].account = account) =>
              reader[r].got = image[ActiveCopy(seq)]
    /\ (seq' = seq /\ writer.pc # "serialize") =>
          image'[ActiveCopy(seq)] = image[ActiveCopy(seq)]

(* What a reader accepts is the active image at the moment of its check: it    *)
(* never returns an older publication, nor an unpublished or abandoned shadow, *)
(* through commits, rollbacks and failed transactions.  And an active image    *)
(* stays as it is: setters and translation touch the copy that no sequence     *)
(* number in use selects (translate, deref_mut).                               *)
ReadsAreCommitted == [][KeepsCommitted]_imageVars
=============================================================================
