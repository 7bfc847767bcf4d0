-------------------------- MODULE TransactionView --------------------------
(***************************************************************************)
(* The zero-copy view of a serialized transaction                          *)
(* (solana/transaction-view): the frame parsed from its bytes, what the    *)
(* accessors read back through the frame, the sanitizing checks, and the   *)
(* writable accounts of the resolved view.                                 *)
(*                                                                         *)
(* The layout is the code's, its sizes are constants: a byte has Base      *)
(* values with Radix the weight of its top bit, and signatures, keys,      *)
(* hashes and configuration words have lengths of their own.  Offsets and  *)
(* buffer lengths fit their types.  A frame `f` holds the fields of        *)
(* TransactionFrame and of the frames in it, with the offset and the error *)
(* of the parse; like the `?` of the code, every step leaves a frame with  *)
(* an error alone.  A read the code does not check that would leave the    *)
(* buffer yields Outside.                                                  *)
(***************************************************************************)
EXTENDS Integers, SequencesExt

CONSTANTS
    Radix,          \* MESSAGE_VERSION_PREFIX, the top bit of a byte
    TopMax,         \* largest third byte of a compressed u16
    SigLen, KeyLen, HashLen, WordLen,
    MaxSigs,        \* MAX_SIGNATURES_PER_PACKET
    MaxPacketKeys,  \* LEGACY_OR_V0_MAX_STATIC_ACCOUNTS_PER_PACKET
    MaxAtls,        \* MAX_ATLS_PER_PACKET
    MaxSize,        \* MaxSize[v]: largest transaction of version v
    MaxLocks,       \* MaxLocks[v]: most accounts of version v
    MaxIxs,         \* MaxIxs[v]: most instructions of version v
    MaxIxAccounts,  \* MAX_ACCOUNTS_PER_INSTRUCTION
    Heaps,          \* heap sizes a transaction may request
    Loader          \* bpf_loader_upgradeable::ID

Base == 2 * Radix
U16 == Radix * Radix * (TopMax + 1)
Outside == -1

V1Prefix == Radix + 1
MagicblockPrefix == Base - 1

EmptyFrame ==
    [off |-> 0, err |-> "Ok", version |-> "Legacy", sigs |-> 0, sigOff |-> 0, msgOff |-> 0,
     required |-> 0, roSigned |-> 0, roUnsigned |-> 0, keys |-> 0, keyOff |-> 0, hashOff |-> 0,
     ixs |-> <<>>, ixOff |-> 0, payOff |-> 0, atls |-> 0, atlOff |-> 0, atlW |-> 0, atlR |-> 0,
     mask |-> 0, maskOff |-> 0, valOff |-> 0]

Parsed(f) == f.err = "Ok"

Refuse(f, bad, error) == IF Parsed(f) /\ bad THEN [f EXCEPT !.err = error] ELSE f

ParseError(f, bad) == Refuse(f, bad, "ParseError")

-----------------------------------------------------------------------------
(* bytes.rs                                                                 *)

CheckRemaining(b, f, n) == ParseError(f, f.off + n > Len(b))

Skip(b, f, n) ==
    IF Parsed(f) /\ f.off + n <= Len(b) THEN [f EXCEPT !.off = @ + n]
    ELSE CheckRemaining(b, f, n)

(* An unchecked read. *)
At(b, o) == IF o + 1 \in DOMAIN b THEN b[o + 1] ELSE Outside

Slice(b, o, n) == [i \in 1..n |-> At(b, o + i - 1)]

(* A value of n bytes, the least significant first. *)
Le(bytes) == SumFunction([i \in DOMAIN bytes |-> bytes[i] * Base ^ (i - 1)])

(* A checked read, for a frame that Skip accepts. *)
Byte(b, f) == IF f.off < Len(b) THEN b[f.off + 1] ELSE 0

(* Mutant: a compressed length may end in a zero byte. *)
CompactErrorPadded(b, f, n) ==
    f.off + n > Len(b) \/ (n = 3 /\ At(b, f.off + 2) > TopMax)

CompactError(b, f, n) ==
    \/ f.off + n > Len(b)
    \/ \E i \in 1..(n - 1) : At(b, f.off + i) = 0
    \/ n = 3 /\ At(b, f.off + 2) > TopMax

(* read_compressed_u16: seven bits a byte, the top bit says more follow. *)
CompactLen(b, f) ==
    IF At(b, f.off) < Radix THEN 1 ELSE IF At(b, f.off + 1) < Radix THEN 2 ELSE 3

ReadCompact(b, f) ==
    LET n == CompactLen(b, f) IN Skip(b, ParseError(f, CompactError(b, f, n)), n)

CompactValue(b, f) ==
    LET n == CompactLen(b, f)
    IN  SumFunction([i \in 1..n |-> (At(b, f.off + i - 1) % Radix) * Radix ^ (i - 1)])

-----------------------------------------------------------------------------
(* The frames of legacy and V0 transactions.                                *)

SignatureFrame(b, f) ==
    LET n == Byte(b, f)
        g == ParseError(Skip(b, f, 1), n \notin 1..MaxSigs)
    IN  Skip(b, [g EXCEPT !.sigs = n, !.sigOff = g.off], n * SigLen)

(* The prefix carries a version, or is the first field of the header. *)
MessageHeaderFrame(b, f) ==
    LET prefix == Byte(b, f)
        versioned == prefix >= Radix
        p == Skip(b, f, 1)
        g == IF versioned THEN Skip(b, ParseError(p, prefix # Radix), 1) ELSE p
    IN  Skip(b, [g EXCEPT !.msgOff = f.off, !.version = IF versioned THEN "V0" ELSE "Legacy",
                          !.required = IF versioned THEN Byte(b, p) ELSE prefix,
                          !.roSigned = At(b, g.off), !.roUnsigned = At(b, g.off + 1)], 2)

StaticAccountKeysFrame(b, f) ==
    LET n == Byte(b, f)
        g == ParseError(Skip(b, f, 1), n \notin 1..MaxPacketKeys)
    IN  Skip(b, [g EXCEPT !.keys = n, !.keyOff = g.off], n * KeyLen)

(* Repeats Read, a parse of one item, n times. *)
Repeated(Read(_), f, n) ==
    IF ~Parsed(f) THEN f
    ELSE FoldLeft(LAMBDA g, i : IF Parsed(g) THEN Read(g) ELSE g, f, [i \in 1..n |-> i])

(* A length, and as many bytes. *)
Array(b, f) == Skip(b, ReadCompact(b, f), CompactValue(b, f))

(* The arrays at p and q, with the bytes their lengths took. *)
InstructionArrays(b, p, q) ==
    Array(b, [q EXCEPT !.ixs = Append(@,
        [accounts |-> CompactValue(b, p), accountsLen |-> CompactLen(b, p),
         data |-> CompactValue(b, q), dataLen |-> CompactLen(b, q)])])

InstructionFrame(b, f) ==
    LET p == Skip(b, f, 1) IN InstructionArrays(b, p, Array(b, p))

InstructionsFrame(b, f) ==
    LET n == CompactValue(b, f)
        g == CheckRemaining(b, ReadCompact(b, f), 3 * n)
    IN  Repeated(LAMBDA h : InstructionFrame(b, h), [g EXCEPT !.ixOff = g.off], n)

LookupArrays(b, w, r) ==
    Array(b, [r EXCEPT !.atlW = @ + CompactValue(b, w), !.atlR = @ + CompactValue(b, r)])

AddressTableLookup(b, f) ==
    LET w == Skip(b, f, KeyLen) IN LookupArrays(b, w, Array(b, w))

LookupTotals(f) == Refuse(f, f.atlW >= U16 \/ f.atlR >= U16, "SanitizeError")

AddressTableLookupFrame(b, f) ==
    LET n == Byte(b, f)
        g == CheckRemaining(b, ParseError(Skip(b, f, 1), n > MaxAtls), (KeyLen + 3) * n)
    IN  LookupTotals(Repeated(LAMBDA x : AddressTableLookup(b, x),
                              [g EXCEPT !.atls = n, !.atlOff = g.off], n))

BlockhashFrame(b, f) == Skip(b, [f EXCEPT !.hashOff = f.off], HashLen)

LookupsFrame(b, f) == IF f.version = "V0" THEN AddressTableLookupFrame(b, f) ELSE f

AllRead(b, f) == ParseError(f, f.off # Len(b))

TryNewAsLegacyOrV0(b) ==
    AllRead(b, LookupsFrame(b, InstructionsFrame(b, BlockhashFrame(b,
        StaticAccountKeysFrame(b, MessageHeaderFrame(b, SignatureFrame(b, EmptyFrame)))))))

-----------------------------------------------------------------------------
(* The frames of V1 and of the engine's own transactions, which share it.   *)

HasBit(mask, bit) == (mask \div 2 ^ bit) % 2 = 1

(* Configuration words present below a bit. *)
WordsBelow(mask, bit) == Cardinality({i \in 0..(bit - 1) : HasBit(mask, i)})

TransactionConfigFrame(b, f) ==
    LET g == Refuse(f, f.mask >= 2 ^ 5 \/ HasBit(f.mask, 0) # HasBit(f.mask, 1), "SanitizeError")
    IN  Skip(b, [g EXCEPT !.valOff = g.off], WordLen * WordsBelow(f.mask, 5))

(* Headers of four bytes each, then the payloads in order. *)
ReadV1Header(b, headers, i) ==
    LET o == headers + 4 * (i - 1)
    IN  [program |-> At(b, o), accounts |-> At(b, o + 1), data |-> Le(Slice(b, o + 2, 2))]

PayloadLen(b, headers, n) ==
    SumFunction([i \in 1..n |-> ReadV1Header(b, headers, i).accounts
                                + ReadV1Header(b, headers, i).data])

PayloadsFrame(b, f, headers, n) ==
    IF ~Parsed(f) THEN f
    ELSE Skip(b, [f EXCEPT !.ixOff = headers, !.payOff = f.off,
                           !.ixs = [i \in 1..n |-> ReadV1Header(b, headers, i)]],
              PayloadLen(b, headers, n))

InstructionsFrameV1(b, f, n) == PayloadsFrame(b, Skip(b, f, 4 * n), f.off, n)

(* Version, header, mask, hash and the two counts are checked at once. *)
V1HashOff == 4 + WordLen
V1KeyOff == V1HashOff + HashLen + 2

HeaderV1(b, f) ==
    IF ~Parsed(f) THEN f ELSE
    [f EXCEPT !.version = IF At(b, 0) = V1Prefix THEN "V1" ELSE "Magicblock",
              !.required = At(b, 1), !.sigs = At(b, 1), !.roSigned = At(b, 2),
              !.roUnsigned = At(b, 3), !.maskOff = 4, !.mask = Le(Slice(b, 4, WordLen)),
              !.hashOff = V1HashOff, !.keys = At(b, V1KeyOff - 1), !.keyOff = V1KeyOff]

KeysFrameV1(b, f) == Skip(b, f, f.keys * KeyLen)

SignaturesFrameV1(b, f) == Skip(b, [f EXCEPT !.sigOff = f.off], f.sigs * SigLen)

TryNewAsV1(b) ==
    LET f == ParseError(Skip(b, EmptyFrame, V1KeyOff), b[1] \notin {V1Prefix, MagicblockPrefix})
        keys == KeysFrameV1(b, HeaderV1(b, f))
    IN  AllRead(b, SignaturesFrameV1(b, InstructionsFrameV1(b,
            TransactionConfigFrame(b, keys), At(b, V1KeyOff - 2))))

TryNewUnsanitized(b) ==
    IF b = <<>> THEN ParseError(EmptyFrame, TRUE)
    ELSE IF b[1] < Radix THEN TryNewAsLegacyOrV0(b) ELSE TryNewAsV1(b)

-----------------------------------------------------------------------------
(* What the accessors read through a frame, without checks.                 *)

IsV1(f) == f.version \in {"V1", "Magicblock"}

Items(b, o, n, len) == [i \in 1..n |-> Slice(b, o + (i - 1) * len, len)]

Signatures(b, f) == Items(b, f.sigOff, f.sigs, SigLen)

StaticAccountKeys(b, f) == Items(b, f.keyOff, f.keys, KeyLen)

RecentBlockhash(b, f) == Slice(b, f.hashOff, HashLen)

(* message_range: signatures come first, or last. *)
MessageData(b, f) ==
    SubSeq(b, f.msgOff + 1, IF IsV1(f) THEN f.sigOff ELSE Len(b))

(* for_legacy_and_v0: the lengths come from the frame, each encoded in as   *)
(* many bytes as the parse saw.                                             *)
IxSize(x) == 1 + x.accountsLen + x.accounts + x.dataLen + x.data

ForLegacyAndV0(b, f, i) ==
    LET o == f.ixOff + SumFunction([j \in 1..(i - 1) |-> IxSize(f.ixs[j])])
        x == f.ixs[i]
        a == o + 1 + x.accountsLen
    IN  [program |-> At(b, o), accounts |-> Slice(b, a, x.accounts),
         data |-> Slice(b, a + x.accounts + x.dataLen, x.data)]

ForV1(b, f, i) ==
    LET o == f.payOff + PayloadLen(b, f.ixOff, i - 1)
        x == ReadV1Header(b, f.ixOff, i)
    IN  [program |-> x.program, accounts |-> Slice(b, o, x.accounts),
         data |-> Slice(b, o + x.accounts, x.data)]

Instructions(b, f) ==
    [i \in DOMAIN f.ixs |-> IF IsV1(f) THEN ForV1(b, f, i) ELSE ForLegacyAndV0(b, f, i)]

ArrayAt(b, f) == Slice(b, f.off + CompactLen(b, f), CompactValue(b, f))

(* AddressTableLookupIterator: each lookup is read again, with checks. *)
LookupAt(b, o) ==
    LET w == [EmptyFrame EXCEPT !.off = o + KeyLen]
        r == Array(b, w)
    IN  [key |-> Slice(b, o, KeyLen), w |-> ArrayAt(b, w), r |-> ArrayAt(b, r),
         end |-> Array(b, r).off]

AddressTableLookups(b, f) ==
    FoldLeft(LAMBDA seen, i :
                Append(seen, LookupAt(b, IF i = 1 THEN f.atlOff ELSE seen[i - 1].end)),
             <<>>, [i \in 1..f.atls |-> i])

(* TransactionConfigView: the words of a bit that is set. *)
ConfigValue(b, f, bit, words) ==
    Slice(b, f.valOff + WordLen * WordsBelow(f.mask, bit), words * WordLen)

Config(b, f) ==
    [bit \in {i \in {0, 2, 3, 4} : HasBit(f.mask, i)} |->
        ConfigValue(b, f, bit, IF bit = 0 THEN 2 ELSE 1)]

-----------------------------------------------------------------------------
(* sanitize.rs; its checks, in order.  Counts are bytes and wrap.           *)

TotalAccounts(f) ==
    LET total == f.keys + f.atlW + f.atlR IN IF total < U16 THEN total ELSE U16 - 1

BadHeader(f) ==
    \/ f.required < 1
    \/ f.roSigned >= f.required
    \/ f.roUnsigned > (f.keys - f.required) % Base

BadConfig(b, f) == HasBit(f.mask, 4) /\ Le(Config(b, f)[4]) \notin Heaps

(* Mutant: a transaction may name fewer keys than signatures. *)
BadSignaturesKeyless(f) == f.sigs # f.required \/ f.sigs > MaxSigs

BadSignatures(f) == f.sigs # f.required \/ f.sigs > MaxSigs \/ f.keys < f.sigs

BadAccess(b, f) ==
    LET keys == StaticAccountKeys(b, f)
    IN  TotalAccounts(f) > MaxLocks[f.version] \/ ~IsInjective(keys)

BadInstructions(b, f) ==
    LET ixs == Instructions(b, f)
        lastProgram == (f.keys - 1) % Base
        lastAccount == (TotalAccounts(f) - 1) % Base
    IN  \/ Len(ixs) > MaxIxs[f.version]
        \/ \E i \in DOMAIN ixs :
             \/ ixs[i].program > lastProgram \/ ixs[i].program = 0
             \/ \E j \in DOMAIN ixs[i].accounts : ixs[i].accounts[j] > lastAccount
             \/ Len(ixs[i].accounts) > MaxIxAccounts

Unsound(b, f) ==
    \/ Len(b) > MaxSize[f.version] \/ BadHeader(f) \/ BadConfig(b, f)
    \/ BadSignatures(f) \/ BadAccess(b, f) \/ BadInstructions(b, f)

Sanitize(b, f) ==
    Refuse(Refuse(f, Unsound(b, f), "SanitizeError"), f.atls # 0, "AddressLookupMismatch")

TryNewSanitized(b) == Sanitize(b, TryNewUnsanitized(b))

-----------------------------------------------------------------------------
(* The resolved view.  Account indexes start at 0.                          *)

NumWritableUnsigned(f) == (((f.keys - f.required) % Base) - f.roUnsigned) % Base

NumWritableSigned(f) == (f.required - f.roSigned) % Base

NumRequestedWriteLocks(f) == (((((f.keys - f.roSigned) % Base) - f.roUnsigned) % Base) + f.atlW) % U16

RequestedWrite(f, i) ==
    IF i >= f.required THEN i - f.required < NumWritableUnsigned(f) ELSE i < NumWritableSigned(f)

IsInvoked(b, f, i) == \E j \in DOMAIN f.ixs : Instructions(b, f)[j].program = i

(* cache_is_writable, of a view without lookups and no reserved keys, as    *)
(* the engine resolves it: programs are demoted unless the upgradeable      *)
(* loader is named.                                                         *)
CacheIsWritable(b, f) ==
    LET keys == StaticAccountKeys(b, f)
        loader == \E i \in DOMAIN keys : keys[i] = Loader
    IN  {i \in 0..(f.keys - 1) : RequestedWrite(f, i) /\ (loader \/ ~IsInvoked(b, f, i))}

IsSigner(f, i) == i < f.required
=============================================================================
