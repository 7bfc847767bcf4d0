------------------------------ MODULE Ingress ------------------------------
(***************************************************************************)
(* How a transaction enters the engine (engine/src/transaction.rs and      *)
(* TransactionAccessor): bytes composed into a sanitized view, authority   *)
(* and signatures verified as its path demands, and the resolved view      *)
(* queued for the sequencer.                                               *)
(*                                                                         *)
(*   sent     the transaction as its signers serialized and signed it      *)
(*   batch    the bytes that arrive, one element unless replicated         *)
(*   path     who submits: a client, the engine itself, a simulation with  *)
(*            or without verification, replay, or the replication client   *)
(*   ingress  "received", "composed", "queued" or "rejected"               *)
(*                                                                         *)
(* A signature is the key it was made with, valid for messages its holder  *)
(* signed.  Serialization is that of the Solana SDK.                       *)
(***************************************************************************)
EXTENDS TransactionView

CONSTANTS
    Sent,         \* transactions signed and sent
    Companion,    \* a valid transaction replicated in the same batch
    Wires(_),     \* Wires(t): bytes that arrive where t was sent
    EngineKey     \* the engine's authority

VARIABLES sent, batch, path, ingress

ingressVars == <<sent, batch, path, ingress>>

Paths == {"client", "engine", "simulated", "unverified", "replay", "replica"}

-----------------------------------------------------------------------------
(* Serialization: the reference the views are checked against.              *)

CompactBytes(n) ==
    IF n < Radix THEN <<n>>
    ELSE IF n < Radix ^ 2 THEN <<Radix + (n % Radix), n \div Radix>>
    ELSE <<Radix + (n % Radix), Radix + ((n \div Radix) % Radix), n \div Radix ^ 2>>

LeBytes(n, len) == [i \in 1..len |-> (n \div Base ^ (i - 1)) % Base]

Concat(seqs) == FoldLeft(LAMBDA x, y : x \o y, <<>>, seqs)

Mapped(Op(_), seq) == [i \in DOMAIN seq |-> Op(seq[i])]

IxBytes(x) ==
    <<x.program>> \o CompactBytes(Len(x.accounts)) \o x.accounts
    \o CompactBytes(Len(x.data)) \o x.data

LookupBytes(x) == x.key \o CompactBytes(Len(x.w)) \o x.w \o CompactBytes(Len(x.r)) \o x.r

HeaderBytes(t) == <<t.required, t.roSigned, t.roUnsigned>>

LegacyMessage(t) ==
    HeaderBytes(t) \o <<Len(t.keys)>> \o Concat(t.keys) \o t.hash
    \o CompactBytes(Len(t.ixs)) \o Concat(Mapped(IxBytes, t.ixs))

V0Message(t) ==
    <<Radix>> \o LegacyMessage(t) \o <<Len(t.atls)>> \o Concat(Mapped(LookupBytes, t.atls))

ConfigBytes(t) == Concat([i \in 1..5 |-> IF i - 1 \in DOMAIN t.config THEN t.config[i - 1] ELSE <<>>])

IxHeader(x) == <<x.program, Len(x.accounts)>> \o LeBytes(Len(x.data), 2)

V1Message(t) ==
    <<IF t.version = "V1" THEN V1Prefix ELSE MagicblockPrefix>> \o HeaderBytes(t)
    \o LeBytes(t.mask, WordLen) \o t.hash \o <<Len(t.ixs), Len(t.keys)>> \o Concat(t.keys)
    \o ConfigBytes(t) \o Concat(Mapped(IxHeader, t.ixs))
    \o Concat(Mapped(LAMBDA x : x.accounts \o x.data, t.ixs))

MessageOf(t) ==
    IF t.version = "Legacy" THEN LegacyMessage(t)
    ELSE IF t.version = "V0" THEN V0Message(t) ELSE V1Message(t)

Serialized(t) ==
    IF IsV1(t) THEN MessageOf(t) \o Concat(t.sigs)
    ELSE <<Len(t.sigs)>> \o Concat(t.sigs) \o MessageOf(t)

-----------------------------------------------------------------------------
(* The engine.                                                              *)

(* magicblock(): V1 bytes with an empty signature slot at their end; the    *)
(* prefix is replaced, then the message before the slot is signed.          *)
Magicblock(t) ==
    LET data == Serialized([t EXCEPT !.version = "V1", !.sigs = <<[i \in 1..SigLen |-> 0]>>])
        prefixed == [data EXCEPT ![1] = MagicblockPrefix]
    IN  SubSeq(prefixed, 1, Len(data) - SigLen) \o EngineKey

TooLarge(t) ==
    \/ Len(t.ixs) > MaxIxs["Magicblock"]
    \/ Len(t.keys) > MaxLocks["Magicblock"]
    \/ \E i \in DOMAIN t.ixs : Len(t.ixs[i].accounts) > MaxLocks["Magicblock"]

ValidateAuthority(b, f) == f.version = "Magicblock" => StaticAccountKeys(b, f)[1] = EngineKey

Authorized(b, f) == Parsed(f) /\ ValidateAuthority(b, f)

(* compose, for bytes: sanitized, and checked against the authority. *)
Composes(b) == Authorized(b, TryNewSanitized(b))

(* Signature::verify *)
SignatureVerify(signature, key, message) ==
    \E t \in {sent, Companion} :
        /\ message = MessageOf(t) /\ signature = key
        /\ \E i \in 1..t.required : i \in DOMAIN t.keys /\ t.keys[i] = key

(* Mutant: the fee payer's signature is the only one verified. *)
SigverifyPayer(b, f) ==
    LET signatures == Signatures(b, f)
        keys == StaticAccountKeys(b, f)
    IN  SignatureVerify(signatures[1], keys[1], MessageData(b, f))

(* signature_data pairs signatures with keys, as far as both go. *)
Sigverify(b, f) ==
    LET signatures == Signatures(b, f)
        keys == StaticAccountKeys(b, f)
    IN  \A i \in DOMAIN signatures \cap DOMAIN keys :
            SignatureVerify(signatures[i], keys[i], MessageData(b, f))

ComposedBatch == \A i \in DOMAIN batch : Composes(batch[i])

VerifiedBatch == \A i \in DOMAIN batch : Sigverify(batch[i], TryNewSanitized(batch[i]))

(* Engine::transaction, TransactionAccessor::replay and the first half of   *)
(* TransactionVerifier::verify; the engine composes its own bytes first.    *)
ComposeTransaction ==
    /\ ingress = "received"
    /\ ingress' = IF ComposedBatch /\ ~(path = "engine" /\ TooLarge(sent))
                  THEN "composed" ELSE "rejected"
    /\ UNCHANGED <<sent, batch, path>>

(* enqueue and simulate, behind the verifier's batch check on the           *)
(* replication path.                                                        *)
Submit ==
    /\ ingress = "composed"
    /\ ingress' = IF path \in {"unverified", "replay"} \/ VerifiedBatch
                  THEN "queued" ELSE "rejected"
    /\ UNCHANGED <<sent, batch, path>>

IngressInit ==
    /\ sent \in Sent /\ path \in Paths
    /\ \/ path = "engine" /\ sent.version = "Magicblock" /\ sent.required = 1
          /\ batch = <<Magicblock(sent)>>
       \/ path # "engine" /\ batch \in {<<b>> : b \in Wires(sent)}
       \/ path = "replica" /\ batch \in {<<Serialized(Companion), b>> : b \in Wires(sent)}
    /\ ingress = "received"

IngressNext == ComposeTransaction \/ Submit

-----------------------------------------------------------------------------
(* Properties.                                                              *)

(* The transaction a view presents through its accessors. *)
Presented(b, f) ==
    [version |-> f.version, sigs |-> Signatures(b, f), required |-> f.required,
     roSigned |-> f.roSigned, roUnsigned |-> f.roUnsigned, keys |-> StaticAccountKeys(b, f),
     hash |-> RecentBlockhash(b, f), mask |-> f.mask, config |-> Config(b, f),
     ixs |-> Instructions(b, f), atls |-> AddressTableLookups(b, f)]

Rebuilt(b, f) == Parsed(f) => Serialized(Presented(b, f)) = b

(* Every buffer the parser accepts is the serialization of the transaction  *)
(* its accessors present: the unchecked second reads of instructions, keys, *)
(* configuration and signatures stay inside the buffer and meet the bytes   *)
(* the parse measured, nothing is skipped and no second encoding accepted.  *)
FramesRebuild ==
    ingress = "received" =>
        \A i \in DOMAIN batch : Rebuilt(batch[i], TryNewUnsanitized(batch[i]))

(* What passes signature verification is, byte for byte, what was signed:   *)
(* the range of bytes verified covers all that decides the transaction, in  *)
(* each of the two layouts, and one bad element stops a replicated batch.   *)
SubmittedIsSigned ==
    ingress = "queued" /\ path \notin {"unverified", "replay"} =>
        Last(batch) = Serialized(sent)

(* A well-formed transaction, in plain arithmetic. *)
WellFormed(t) ==
    LET accounts == Len(t.keys) IN
    /\ Len(Serialized(t)) <= MaxSize[t.version]
    /\ t.required >= 1 /\ Len(t.sigs) = t.required /\ t.required <= MaxSigs
    /\ t.roSigned < t.required /\ t.required + t.roUnsigned <= accounts
    /\ accounts <= MaxLocks[t.version] /\ IsInjective(t.keys)
    /\ IsV1(t) \/ accounts <= MaxPacketKeys
    /\ Len(t.ixs) <= MaxIxs[t.version]
    /\ \A i \in DOMAIN t.ixs :
         /\ t.ixs[i].program \in 1..(accounts - 1) /\ Len(t.ixs[i].accounts) <= MaxIxAccounts
         /\ Range(t.ixs[i].accounts) \subseteq 0..(accounts - 1)
    /\ 4 \in DOMAIN t.config => Le(t.config[4]) \in Heaps
    /\ t.atls = <<>>
    /\ t.version = "Magicblock" => t.keys[1] = EngineKey

(* The writable accounts of a message, by the header's partition of keys. *)
WritableOf(t) ==
    LET signed == 0..(t.required - t.roSigned - 1)
        unsigned == t.required..(Len(t.keys) - t.roUnsigned - 1)
        invoked == {t.ixs[i].program : i \in DOMAIN t.ixs}
    IN  IF Loader \in Range(t.keys) THEN signed \cup unsigned
        ELSE (signed \cup unsigned) \ invoked

(* What the resolved view of frame f grants is what the header declares. *)
ExactAccess(b, f) ==
    LET t == Presented(b, f) IN
    /\ WellFormed(t)
    /\ CacheIsWritable(b, f) = WritableOf(t)
    /\ {k \in 0..(f.keys - 1) : IsSigner(f, k)} = 0..(Len(t.sigs) - 1)
    /\ NumRequestedWriteLocks(f) = Len(t.keys) - t.roSigned - t.roUnsigned

(* Submission admits exactly the well-formed transactions, although the     *)
(* checks use bytes that wrap and the header is checked before the keys are *)
(* known to be as many as the signatures; and the resolved view's writable  *)
(* accounts and lock count are those the header declares.                   *)
AccessIsExact ==
    /\ ingress = "rejected" /\ Last(batch) = Serialized(sent) => ~WellFormed(sent)
    /\ ingress = "queued" =>
        \A i \in DOMAIN batch : ExactAccess(batch[i], TryNewSanitized(batch[i]))
=============================================================================
