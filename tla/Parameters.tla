----------------------------- MODULE Parameters -----------------------------
(***************************************************************************)
(* The input of an SBF program (program-runtime/src/serialization.rs): the *)
(* serialized buffer, the memory regions that show it to the program with  *)
(* the accounts' own data in between, the addresses kept for CPI, and the  *)
(* walk that reads the buffer back.  Sizes are the code's; contents are    *)
(* left out: a field is known by its place.                                *)
(*                                                                         *)
(*   ixAccts  the instruction's accounts: data length, and the position of *)
(*            the account each one duplicates (its own if none)            *)
(*   abi      0 for the deprecated loader, else 1                          *)
(*   direct   feature direct_account_pointers_in_program_input             *)
(*   input    the Serializer: buffer length, regions, next address, start  *)
(*            of the region being filled, and `at`, the buffer offset and  *)
(*            address of every field                                       *)
(***************************************************************************)
EXTENDS Integers, SequencesExt

CONSTANTS
    IxAccounts,    \* account lists of instructions
    Increase,      \* MAX_PERMITTED_DATA_INCREASE
    InputStart,    \* MM_INPUT_START
    DataLen        \* length of the instruction's data

VARIABLES ixAccts, abi, direct, input

paramVars == <<ixAccts, abi, direct, input>>

Align == 8

AlignOffset(n) == (-n) % Align

IsDuplicate(i) == ixAccts[i].same # i

-----------------------------------------------------------------------------
(* Serializer.                                                              *)

NewSerializer == [len |-> 0, regions |-> <<>>, vaddr |-> InputStart, start |-> 0, at |-> <<>>]

(* write and write_all, for the fields of account i in order, each a name   *)
(* and a size.                                                              *)
SizeOf(fields) == FoldLeft(LAMBDA n, f : n + f[2], 0, fields)

WriteFields(s, i, fields) ==
    LET place(k) == LET before == s.len + SizeOf(SubSeq(fields, 1, k - 1))
                    IN  [buf |-> before, vm |-> s.vaddr + before - s.start]
        key(name) == CHOOSE k \in DOMAIN fields : fields[k][1] = name
        names == {fields[k][1] : k \in DOMAIN fields}
    IN  [s EXCEPT !.len = @ + SizeOf(fields),
                  !.at = [x \in {i} \X names |-> place(key(x[2]))] @@ @]

PushRegion(s) ==
    LET n == s.len - s.start
    IN  [s EXCEPT !.regions = Append(@, [vm |-> s.vaddr, len |-> n, size |-> n, buf |-> s.start,
                                         acct |-> 0]),
                  !.start = s.len, !.vaddr = @ + n]

ReservedFor(n) == IF abi = 0 THEN n ELSE n + Increase

(* Mutant: the next region starts behind the padding, not before it.       *)
PaddedBehind(s, n) ==
    IF abi = 0 THEN s ELSE [s EXCEPT !.len = @ + Align, !.start = @ + AlignOffset(n)]

(* A filler of Align bytes, of which the last AlignOffset(n) are shown. *)
Padded(s, n) ==
    IF abi = 0 THEN s ELSE [s EXCEPT !.len = @ + Align, !.start = @ + Align - AlignOffset(n)]

WriteAccount(s, i) ==
    LET n == ixAccts[i].len
        p == PushRegion(s)
        r == [p EXCEPT !.regions = Append(@, [vm |-> p.vaddr, len |-> n, size |-> ReservedFor(n),
                                              buf |-> 0, acct |-> i]),
                       !.vaddr = @ + ReservedFor(n)]
        placed == [IF ReservedFor(n) > 0 THEN r ELSE p EXCEPT
                     !.at = (<<i, "data">> :> [buf |-> 0, vm |-> p.vaddr]) @@ @]
    IN  Padded(placed, n)

(* The metadata of a duplicate is the first occurrence's. *)
Names == {"marker", "key", "owner", "lamports", "len", "data"}

WriteDuplicate(s, i, size) ==
    LET w == [s EXCEPT !.len = @ + size]
    IN  [w EXCEPT !.at = [x \in {i} \X Names |-> s.at[<<ixAccts[i].same, x[2]>>]] @@ @]

SerializeV0(s, i) ==
    LET head == <<<<"marker", 1>>, <<"signer", 1>>, <<"writable", 1>>, <<"key", 32>>,
                  <<"lamports", 8>>, <<"len", 8>>>>
        tail == <<<<"owner", 32>>, <<"executable", 1>>, <<"epoch", 8>>>>
    IN  IF IsDuplicate(i) THEN WriteDuplicate(s, i, 1)
        ELSE WriteFields(WriteAccount(WriteFields(s, i, head), i), i, tail)

SerializeV1(s, i) ==
    LET head == <<<<"marker", 1>>, <<"signer", 1>>, <<"writable", 1>>, <<"executable", 1>>,
                  <<"original", 4>>, <<"key", 32>>, <<"owner", 32>>, <<"lamports", 8>>,
                  <<"len", 8>>>>
        tail == <<<<"epoch", 8>>>>
    IN  IF IsDuplicate(i) THEN WriteDuplicate(s, i, 8)
        ELSE WriteFields(WriteAccount(WriteFields(s, i, head), i), i, tail)

InputSize(first, other) ==
    LET firsts == Cardinality({i \in DOMAIN ixAccts : ~IsDuplicate(i)})
    IN  8 + firsts * first + (Len(ixAccts) - firsts) * other + 8 + DataLen + 32

SizeV0 == InputSize(92, 1)

PointersOffset == AlignOffset(InputSize(96 + Align, 8))

SizeV1 ==
    InputSize(96 + Align, 8) + (IF direct THEN PointersOffset + 8 * Len(ixAccts) ELSE 0)

Finish(s) == PushRegion(s)

(* Instruction data and program id; with the feature, after padding, a      *)
(* table of the accounts' addresses.                                        *)
WriteTrailer(s) ==
    LET end == WriteFields(s, 0, <<<<"count", 8>>, <<"data", DataLen>>, <<"program", 32>>>>)
    IN  IF abi = 1 /\ direct
        THEN WriteFields(end, 0, <<<<"padding", PointersOffset>>, <<"pointers", 8 * Len(ixAccts)>>>>)
        ELSE end

SerializeInput ==
    LET start == WriteFields(NewSerializer, 0, <<<<"accounts", 8>>>>)
        all == FoldLeft(LAMBDA s, i : IF abi = 0 THEN SerializeV0(s, i) ELSE SerializeV1(s, i),
                        start, [i \in DOMAIN ixAccts |-> i])
    IN  Finish(WriteTrailer(all))

-----------------------------------------------------------------------------
(* The walk of deserialize_parameters: where it reads each field.           *)

WalkV0(w, i) ==
    IF IsDuplicate(i) THEN [w EXCEPT !.start = @ + 1]
    ELSE [start |-> w.start + 92, at |-> (<<i, "lamports">> :> w.start + 35) @@ w.at]

WalkV1(w, i) ==
    LET owner == w.start + 8 + 32
    IN  IF IsDuplicate(i) THEN [w EXCEPT !.start = @ + 8]
        ELSE [start |-> owner + 48 + Align + 8,
              at |-> (<<i, "owner">> :> owner) @@ (<<i, "lamports">> :> owner + 32)
                     @@ (<<i, "len">> :> owner + 40) @@ w.at]

Walked ==
    FoldLeft(LAMBDA w, i : IF abi = 0 THEN WalkV0(w, i) ELSE WalkV1(w, i),
             [start |-> 8, at |-> <<>>], [i \in DOMAIN ixAccts |-> i]).at

-----------------------------------------------------------------------------
(* Address translation.                                                     *)

(* MemoryMapping::map: n bytes inside one region. *)
RegionsOf(vm, n) ==
    {r \in DOMAIN input.regions :
        input.regions[r].vm <= vm /\ vm + n <= input.regions[r].vm + input.regions[r].len}

Translates(vm, n, checked) ==
    \E r \in RegionsOf(vm, n) :
        LET host == input.regions[r].buf + (vm - input.regions[r].vm)
        IN  ~checked \/ host % Align = 0

(* An account info of the caller: the addresses it holds, those of the      *)
(* cells in which a Rust program keeps balance and data (for C, of the      *)
(* length field), and the data length.                                      *)
PointerErrors(info, i) ==
    [key |-> info.key # input.at[<<i, "key">>].vm,
     owner |-> info.owner # input.at[<<i, "owner">>].vm,
     lamports |-> info.lamports # input.at[<<i, "lamports">>].vm,
     data |-> info.data # input.at[<<i, "data">>].vm]

Untranslated(info) ==
    ~Translates(info.lamports, 8, abi = 1) \/ ~Translates(info.owner, 32, FALSE)

TooLong(info, i) == info.len > ReservedFor(ixAccts[i].len)

(* CallerAccount::from_account_info: the cells must be outside the input.   *)
FromAccountInfo(info, i) ==
    LET bad == PointerErrors(info, i)
    IN  IF bad.key \/ bad.owner \/ info.lamportsCell >= InputStart \/ bad.lamports
        THEN "InvalidPointer"
        ELSE IF Untranslated(info) THEN "AccessViolation"
        ELSE IF info.dataCell >= InputStart \/ bad.data \/ info.dataCell + 8 >= InputStart
        THEN "InvalidPointer"
        ELSE IF TooLong(info, i) THEN "InvalidRealloc" ELSE "Ok"

(* CallerAccount::from_sol_account_info. *)
FromSolAccountInfo(info, i) ==
    LET bad == PointerErrors(info, i)
    IN  IF bad.key \/ bad.owner \/ bad.lamports \/ bad.data THEN "InvalidPointer"
        ELSE IF Untranslated(info) THEN "AccessViolation"
        ELSE IF info.dataCell >= InputStart THEN "InvalidPointer"
        ELSE IF TooLong(info, i) THEN "InvalidRealloc" ELSE "Ok"

-----------------------------------------------------------------------------
NoInput == NewSerializer

ParamInit ==
    ixAccts \in IxAccounts /\ abi \in {0, 1} /\ direct \in BOOLEAN /\ input = NoInput

SerializeParams ==
    /\ input = NoInput
    /\ input' = SerializeInput
    /\ UNCHANGED <<ixAccts, abi, direct>>

-----------------------------------------------------------------------------
(* Properties.                                                              *)

(* How the entrypoint of the SDK walks the input it is given. *)
ProgramWalk(w, i) ==
    LET data == IF abi = 0 THEN w.next + 51 ELSE w.next + 88
        behind == data + ReservedFor(ixAccts[i].len)
        padding == IF abi = 0 THEN 0 ELSE AlignOffset(behind)
        fields == IF abi = 0
                  THEN [key |-> w.next + 3, lamports |-> w.next + 35, len |-> w.next + 43,
                        data |-> data, owner |-> behind]
                  ELSE [key |-> w.next + 8, owner |-> w.next + 40, lamports |-> w.next + 72,
                        len |-> w.next + 80, data |-> data]
    IN  IF IsDuplicate(i)
        THEN [next |-> w.next + (IF abi = 0 THEN 1 ELSE 8),
              seen |-> Append(w.seen, w.seen[ixAccts[i].same])]
        ELSE [next |-> behind + padding + (IF abi = 0 THEN 41 ELSE 8),
              seen |-> Append(w.seen, fields)]

ProgramSees ==
    FoldLeft(ProgramWalk, [next |-> InputStart + 8, seen |-> <<>>],
             [i \in DOMAIN ixAccts |-> i])

Info(f, i) ==
    [key |-> f.key, owner |-> f.owner, lamports |-> f.lamports, data |-> f.data,
     lamportsCell |-> 0, dataCell |-> 0, len |-> ixAccts[i].len]

(* serialize_parameters: the three readings of a program's input agree, for *)
(* every list of accounts, its duplicates and lengths: addresses a program  *)
(* computes are the ones kept for CPI, translate to the buffer bytes the    *)
(* read-back takes for the same field of the same account, and are aligned  *)
(* where the code demands it; regions follow one another; and the buffer,   *)
(* written unchecked, is exactly as large as was allocated.                 *)
ParametersAgree ==
    input # NoInput =>
        LET sees == ProgramSees.seen
            regions == input.regions
        IN  /\ input.len = IF abi = 0 THEN SizeV0 ELSE SizeV1
            /\ \A r \in 1..(Len(regions) - 1) :
                 regions[r + 1].vm = regions[r].vm + regions[r].size
            /\ input.at[<<0, "data">>].vm = ProgramSees.next + 8
            /\ (abi = 1 /\ direct) => input.at[<<0, "pointers">>].vm % Align = 0
            /\ \A x \in DOMAIN Walked : Walked[x] = input.at[x].buf
            /\ \A i \in DOMAIN ixAccts :
                 /\ \A f \in DOMAIN sees[i] : sees[i][f] = input.at[<<i, f>>].vm
                 /\ \A f \in {"lamports", "len"} :
                      \E r \in RegionsOf(sees[i][f], 8) :
                         regions[r].buf + (sees[i][f] - regions[r].vm) = input.at[<<i, f>>].buf
                 /\ FromAccountInfo(Info(sees[i], i), i) = "Ok"
                 /\ FromSolAccountInfo(Info(sees[i], i), i) = "Ok"
=============================================================================
