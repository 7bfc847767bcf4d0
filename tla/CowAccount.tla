----------------------------- MODULE CowAccount -----------------------------
(***************************************************************************)
(* AccountSharedData (solana/account/src/cow): one interface over an image *)
(* borrowed from mapped storage and a heap copy.  A borrowed account is    *)
(* copied to its shadow image on the first change and changed there; it    *)
(* moves to the heap when its data outgrows the image.  Dirty markers      *)
(* record what changed, and storage acts on the markers.                   *)
(*                                                                         *)
(* One account and the transactions that own it, one after the other.      *)
(* Heap buffers shared through Arc are copied on write and so are values.  *)
(***************************************************************************)
EXTENDS Integers, SequencesExt, AccountMode

CONSTANTS Byte, Number, Slot, Modes, MaxLen, Chunk,
    ALIGNMENT,              \* bytes by which an image grows
    MAX_DATA_CHUNK_SIZE,    \* bytes in one data patch
    Target,                 \* accounts that are materialized over this one
    MaxOps                  \* bound on the changes of a behaviour

ASSUME CowAccountAssumption ==
    /\ 0 \in Byte /\ Byte \subseteq Nat
    /\ 0 \in Number /\ Number \subseteq Nat
    /\ 0 \in Slot /\ Slot \subseteq Nat
    /\ {"Mirrored", "Delegated"} \subseteq Modes
    /\ Modes \subseteq AccountModes \ {"Closed"}
    /\ {MaxLen, MaxOps} \subseteq Nat
    /\ {ALIGNMENT, MAX_DATA_CHUNK_SIZE} \subseteq Nat \ {0}

VARIABLES
    sequence,   \* AccountHeader::sequence
    images,     \* the two images of the account's span
    volatile,   \* the account in volatile storage, if it is there
    cow,        \* the transaction's view: a borrowed image or a heap account
    dirty,      \* DirtyMarkers
    ops

cowVars == <<sequence, images, volatile, cow, dirty, ops>>

None == [none |-> TRUE]

Active(s) == 1 + (s % 2)

(* DataSlice: len bytes of the image's capacity are data. *)
ImageAccount(image) ==
    [image.core EXCEPT !.data = SubSeq(image.bytes, 1, Min({image.len, Len(image.bytes)}))]

(* A view is judged with the images it may point into. *)
State == [images |-> images, cow |-> cow]

Read(s) == IF s.cow.form = "borrowed" THEN ImageAccount(s.images[s.cow.side])
           ELSE s.cow.account

View == Read(State)

(* AccountLoader::load: the volatile account, or a view of the active image. *)
Stored == IF volatile # None THEN volatile ELSE ImageAccount(images[Active(sequence)])

Owned(account) == [form |-> "owned", account |-> account]

Borrowed(s) == [form |-> "borrowed", version |-> s, side |-> Active(s)]

(* OwnedAccount::serialize: the first image is written up to len; the spare    *)
(* bytes and the second image are whatever the span held before.               *)
Serialized(account, junk) ==
    LET size == Len(account.data)
        cap == ((size + ALIGNMENT - 1) \div ALIGNMENT) * ALIGNMENT
        image == [core |-> [account EXCEPT !.data = <<>>], len |-> size,
                  bytes |-> account.data \o [i \in 1..(cap - size) |-> junk]]
    IN  <<image, [image EXCEPT !.bytes = [i \in 1..cap |-> junk]]>>

Blank == [lamports |-> 0, owner |-> 0, slot |-> 0, commit_seq |-> 0,
          mode |-> "Mirrored", flags |-> 0, data |-> <<>>]

(* A copy of a base-layer account in volatile storage, or an account that was  *)
(* persisted earlier.                                                          *)
CowInit ==
    /\ \E data \in {<<>>} \cup Chunk, mode \in {"Mirrored", "Delegated"} :
        LET account == [Blank EXCEPT !.data = data, !.mode = mode]
        IN  /\ images = Serialized(account, 0)
            /\ volatile = IF RequiresPersistence(mode) THEN None ELSE account
    /\ sequence = 0
    /\ cow = IF volatile = None THEN Borrowed(0) ELSE Owned(volatile)
    /\ dirty = {}
    /\ ops = 0

-----------------------------------------------------------------------------
(* translate: a clean borrowed view is copied to the shadow and moves there. *)
Translated ==
    IF dirty # {} \/ cow.form = "owned" THEN State
    ELSE LET shadow == 3 - Active(cow.version)
         IN  [images |-> [images EXCEPT ![shadow] = images[cow.side]],
              cow |-> [cow EXCEPT !.side = shadow]]

WithField(s, field, to) ==
    IF s.cow.form = "borrowed" THEN [s EXCEPT !.images[s.cow.side].core[field] = to]
    ELSE [s EXCEPT !.cow.account[field] = to]

(* promote: a heap copy of the image the view points to. *)
Promoted(s) == [s EXCEPT !.cow = Owned(Read(s))]

Size(s) == Len(Read(s).data)

Capacity(s) == Len(s.images[s.cow.side].bytes)

Fits(s, len) == s.cow.form = "borrowed" /\ len <= Capacity(s)

(* Bytes of an image or a heap buffer with chunk copied over them. *)
Stamped(bytes, offset, chunk) ==
    [i \in DOMAIN bytes |->
        IF i \in offset + 1 .. offset + Len(chunk) THEN chunk[i - offset] ELSE bytes[i]]

(* A copy into a borrowed image, which then has len bytes of data. *)
InImage(s, offset, chunk, len) ==
    [s EXCEPT !.images[s.cow.side].bytes = Stamped(@, offset, chunk),
              !.images[s.cow.side].len = len]

OnHeap(s, data) == [s EXCEPT !.cow.account.data = data]

Zeros(n) == [i \in 1..n |-> 0]

(* Mutant: grown bytes are not filled. *)
ResizeUnfilled(s, len) ==
    IF Fits(s, len) THEN InImage(s, Size(s), <<>>, len)
    ELSE OnHeap(Promoted(s), SubSeq(Read(s).data \o Zeros(len), 1, len))

(* resize: the bytes past the old length are filled, or dropped from view. *)
Resize(s, len) ==
    LET grown == IF len > Size(s) THEN Zeros(len - Size(s)) ELSE <<>>
    IN  IF Fits(s, len) THEN InImage(s, Size(s), grown, len)
        ELSE OnHeap(Promoted(s), SubSeq(Read(s).data \o grown, 1, len))

(* reserve: the image is kept when its spare room suffices. *)
Reserved(s, additional) == IF Fits(s, Size(s) + additional) THEN s ELSE Promoted(s)

Extend(s, chunk) ==
    LET r == Reserved(s, Len(chunk))
    IN  IF r.cow.form = "borrowed" THEN InImage(r, Size(r), chunk, Size(r) + Len(chunk))
        ELSE OnHeap(r, r.cow.account.data \o chunk)

SetData(s, chunk) ==
    LET r == Reserved(s, IF Len(chunk) > Size(s) THEN Len(chunk) - Size(s) ELSE 0)
    IN  IF r.cow.form = "borrowed" THEN InImage(r, 0, chunk, Len(chunk))
        ELSE OnHeap(r, chunk)

(* data_as_mut_slice: bytes are overwritten where they are. *)
Overwrite(s, offset, chunk) ==
    IF s.cow.form = "borrowed" THEN InImage(s, offset, chunk, Size(s))
    ELSE OnHeap(s, Stamped(s.cow.account.data, offset, chunk))

(* set_data_at: fill the gap, overwrite the overlap, append the rest. *)
SetDataAt(s, offset, chunk) ==
    LET g == IF offset > Size(s) THEN Resize(s, offset) ELSE s
        n == Min({Size(g) - offset, Len(chunk)})
    IN  Extend(Overwrite(g, offset, SubSeq(chunk, 1, n)), SubSeq(chunk, n + 1, Len(chunk)))

-----------------------------------------------------------------------------
(* AccountFieldPatch::sequence: an account as the patches that rebuild it. *)
Patches(account) ==
    LET size == Len(account.data)
        chunks == (size + MAX_DATA_CHUNK_SIZE - 1) \div MAX_DATA_CHUNK_SIZE
        offset(i) == (i - 1) * MAX_DATA_CHUNK_SIZE
    IN  <<[field |-> "lamports", to |-> account.lamports],
          [field |-> "lifecycle", mode |-> account.mode, slot |-> account.slot],
          [field |-> "commit_seq", to |-> account.commit_seq],
          [field |-> "owner", to |-> account.owner],
          [field |-> "data_len", len |-> size]>>
        \o [i \in 1..chunks |->
              [field |-> "data_at", offset |-> offset(i),
               chunk |-> SubSeq(account.data, offset(i) + 1,
                                Min({size, offset(i) + MAX_DATA_CHUNK_SIZE}))]]

(* apply: one patch, through the setter of its field. *)
Patched(s, patch) ==
    CASE patch.field = "lifecycle" ->
            WithField(WithField(s, "mode", patch.mode), "slot", patch.slot)
      [] patch.field = "data_at" -> SetDataAt(s, patch.offset, patch.chunk)
      [] patch.field = "data_len" -> Resize(s, patch.len)
      [] OTHER -> WithField(s, patch.field, patch.to)

-----------------------------------------------------------------------------
Marker == [lamports |-> "LAMPORTS", owner |-> "OWNER", slot |-> "SLOT", mode |-> "MODE",
           commit_seq |-> "COMMIT_SEQ", flags |-> "FLAGS", data |-> "DATA"]

(* A setter: its effect on the translated view, and the markers it leaves. *)
Change(s, markers) ==
    /\ ops < MaxOps
    /\ ops' = ops + 1
    /\ images' = s.images
    /\ cow' = s.cow
    /\ dirty' = dirty \cup markers
    /\ UNCHANGED <<sequence, volatile>>

(* set_lamports, set_owner, set_commit_seq and set_flags: nothing happens when *)
(* the value stays the same.                                                   *)
SetField(field, to) ==
    /\ View[field] # to
    /\ Change(WithField(Translated, field, to), {Marker[field]})

(* Mutant: only the slot is marked. *)
SetLifecycleUnmarked(mode, slot) ==
    /\ ValidTransition(View.mode, mode, View.slot, slot)
    /\ Change(WithField(WithField(Translated, "mode", mode), "slot", slot), {"SLOT"})

(* set_lifecycle: validated before it translates. *)
SetLifecycle(mode, slot) ==
    /\ ValidTransition(View.mode, mode, View.slot, slot)
    /\ Change(WithField(WithField(Translated, "mode", mode), "slot", slot),
              {"SLOT"} \cup (IF View.mode = mode THEN {} ELSE {"MODE"}))

ResizeData(len) == Change(Resize(Translated, len), {"DATA"})

ExtendFromSlice(chunk) ==
    /\ Size(State) + Len(chunk) <= MaxLen
    /\ Change(Extend(Translated, chunk), {"DATA"})

SetDataFromSlice(chunk) == Change(SetData(Translated, chunk), {"DATA"})

WriteDataAt(offset, chunk) ==
    /\ offset + Len(chunk) <= MaxLen
    /\ Change(SetDataAt(Translated, offset, chunk), {"DATA"})

(* The next transaction loads the account anew. *)
Load ==
    /\ cow' = IF volatile' # None THEN Owned(volatile') ELSE Borrowed(sequence')
    /\ dirty' = {}
    /\ UNCHANGED ops

(* commit: the shadow is published if it was prepared against this sequence. *)
Committed ==
    IF cow.form = "borrowed" /\ cow.side # Active(cow.version) /\ sequence = cow.version
    THEN sequence + 1 ELSE sequence

(* A mode that stays on the heap: the image, published first, is given up. *)
StoreVolatile ==
    /\ ~RequiresPersistence(View.mode)
    /\ sequence' = Committed
    /\ volatile' = View
    /\ UNCHANGED images
    /\ Load

(* A persisted account changed in its image: published if any marker is set. *)
StoreBorrowed ==
    /\ RequiresPersistence(View.mode)
    /\ cow.form = "borrowed"
    /\ sequence' = IF dirty = {} THEN sequence ELSE Committed
    /\ UNCHANGED <<images, volatile>>
    /\ Load

(* A persisted account on the heap gets a new image. *)
StoreOwned ==
    /\ RequiresPersistence(View.mode)
    /\ cow.form = "owned"
    /\ \E junk \in Byte : images' = Serialized(View, junk)
    /\ sequence' = 0
    /\ volatile' = None
    /\ Load

(* The transaction fails: its view is dropped. *)
Abandon ==
    /\ UNCHANGED <<sequence, images, volatile>>
    /\ Load

CowNext ==
    \/ \E field \in {"lamports", "owner", "commit_seq", "flags"}, to \in Number :
           SetField(field, to)
    \/ \E mode \in Modes, slot \in Slot : SetLifecycle(mode, slot)
    \/ \E len \in 0..MaxLen : ResizeData(len)
    \/ \E chunk \in Chunk : ExtendFromSlice(chunk) \/ SetDataFromSlice(chunk)
    \/ \E offset \in 0..MaxLen, chunk \in Chunk : WriteDataAt(offset, chunk)
    \/ StoreVolatile
    \/ StoreBorrowed
    \/ StoreOwned
    \/ Abandon

-----------------------------------------------------------------------------
(* The view is an account with bounded data, and markers are those declared. *)
CowTypeOK ==
    /\ sequence \in Nat
    /\ cow.form \in {"borrowed", "owned"}
    /\ dirty \subseteq {Marker[f] : f \in DOMAIN Marker}
    /\ View.mode \in Modes
    /\ View.data \in SeqOf(Byte, MaxLen)
    /\ ops \in 0..MaxOps

(* The view and what is stored, as one plain account. *)
Plain == INSTANCE PlainAccount WITH value <- View, stored <- Stored

(* Whatever form the account takes (active image, shadow image, heap copy      *)
(* after outgrowing an image), its setters and its storage behave as those of  *)
(* a plain record, which is what callers of cow/mod.rs are written against:    *)
(* nothing left in a shadow image, in spare capacity or beyond a shortened     *)
(* length ever shows, and a transaction that fails leaves nothing behind.      *)
BehavesAsPlainAccount == Plain!PlainSpec

(* A field that differs from what is stored carries its marker: storage        *)
(* publishes and reindexes by markers alone (PersistedStore::update), and      *)
(* can_writeback admits a mode change by MODE alone.  The patches of an        *)
(* account, applied in order over whatever this one is at the time, make it    *)
(* that account except for its flags (patch.rs: "the ordered sequence of       *)
(* patches that reconstruct its non-flag fields"), provided the lifecycle step *)
(* is valid.                                                                   *)
ChangesAreRecorded ==
    /\ \A field \in DOMAIN Marker : View[field] # Stored[field] => Marker[field] \in dirty
    /\ \A account \in Target :
           ValidTransition(View.mode, account.mode, View.slot, account.slot) =>
               Read(FoldLeft(Patched, Translated, Patches(account)))
                   = [account EXCEPT !.flags = View.flags]
=============================================================================
