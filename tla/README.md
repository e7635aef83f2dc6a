# A verification project for libhc

libhc is the native core of Hypercore: an append-only log with a merkle tree over
its blocks, kept in rocksdb.  This directory holds TLA+ modules of the library, TLC
configurations that check them on small instances, and TLAPS proofs of theorems
about them.  Paths below are relative to the repository.

Run a configuration with `tlc -config core_log.cfg MCHcCore`, a proof with
`tlapm HcCoreProofs.tla`.

## 1. The system

| component | source | state | operations |
|---|---|---|---|
| merkle tree append | `src/merkle_tree.c` | an upgrade: copy of a core's roots, length, byte length | `hc_merkle_tree_append` |
| core | `src/core.c`, `include/hc/core.h` | roots, length, byte_length (fork, key and manifest are carried along) | init, destroy, append, load, checkout (a stub), commit |
| upgrade API | same files | one upgrade across calls | `hc_core_upgrade_init`, any number of appends, commit, destroy |
| store | `src/store.c` | two counters, from which each new core gets its pointers | init, create, get, destroy |
| core batches | `include/hc/db.h` 129-413 | arrays of queued puts, deletes, reads | queue, flush |
| store batches | `include/hc/db.h` 415-624 | queued head and core records, queued reads | queue, flush |
| database | `include/hc/db.h` 41-127 | the rocksdb handle and one column family | open, close |
| keys | `src/keys.c`, `src/encodings/keys.c` | none | record name to byte string, ranges of names |
| schema codecs | `schema/hc_schema.c` (generated) | none | preencode, encode, decode of each record |
| crypto, hashes, manifest | `src/crypto.c`, `src/hashes.c` | six namespace hashes | digests, signatures, the manifest |
| init | `src/init.c` | one flag | `hc_init` |
| growable array | `include/hc/array.h` | buffer, length, capacity | init, grow, destroy |

How they interact.  A process opens a store on a path (`hc_store_init`), which reads
the counters.  `hc_store_create` takes the counters as the pointers of a new core,
advances them, and writes both in one batch; `hc_store_get` reads the pointers of a
discovery key, initialises the caller's `hc_core_t` and loads it.  A core names all
its records by its data pointer: one head, blocks by number, tree nodes by flat tree
index.  `hc_core_append` forks an upgrade from the core, lets
`hc_merkle_tree_append` grow it and queue the tree nodes, queues the blocks and the
head, writes everything in one rocksdb batch and then moves the upgrade onto the
core.  `hc_core_load` reads the head and then the roots of its length.

What is hard.  There are no threads, callbacks or locks: every call runs to its end.
The hard part is what lies between: a failed allocation, read or write in the middle
of a call, a crash between the durable batch and the commit, a record that is missing
and not reported, handles that do not know of each other, and sequences of calls that
leave a core whose roots, length and byte length no longer belong together.
`PROJECT.json` lists these hazards, each at its line, with the properties that would
catch it.

What makes each component correct:

- *merkle tree append*: the roots it leaves are those of the blocks; every new
  complete subtree is queued; it needs no more room than it allocated.
- *core*: a handle is what the disk says; a batch is durable at once or not at all,
  is acknowledged only when durable, and is never lost; a load never uses a node it
  did not read.
- *upgrade API*: the result does not depend on how the blocks were split into calls.
- *store*: no pointer is ever given out twice, through failures and crashes.
- *store and cores*: the store is a map from discovery keys to logs; an append on one
  core reaches no other.
- *batches*: a flush has the effect of the calls, under the keys they gave, all of it
  or nothing; a read reports every error, gives out nothing after it, and leaves no
  buffer behind.
- *keys*: no two records share a key, and a range holds exactly what it is named for.
- *codecs*: what one function counts another one writes; a record fits its buffer; a
  decoder that returns no error has read the record that was encoded.
- *hashes, init*: no two statements are signed or hashed as the same bytes.
- *growable array*: an array that grows keeps its entries, not their addresses.

## 2. The modules

| module | what it is |
|---|---|
| `FlatTree` | the part of libflattree (external) that is used: the iterator, and the roots of a length |
| `MerkleTree` | `hc_merkle_tree_append`, one loop iteration per step; and the reference tree, defined without appending |
| `HcCore` | the handles on one data pointer, and its records on disk |
| `AppendLog` | the abstract specification of one handle: an append-only log and the length it shows |
| `HcCoreLog` | the refinement mapping from `HcCore` to `AppendLog` |
| `MerkleUpgrade` | the public upgrade functions on their own; extends `MerkleTree` like `HcCore` does |
| `HcStore` | the store's counters, the records of the cores, and the handles' pointers |
| `LogStore` | the abstract specification of the store: for each discovery key a log |
| `StoreCores` | the store with the logs behind its data pointers; extends `HcStore`, implements `LogStore` |
| `GrowableArray` | `hc__array_grow`: what a growing array can become |
| `KvBatch` | entries that hold their key, and what a flush makes of them; extends `GrowableArray` |
| `AtomicBatch` | the abstract specification of a write batch |
| `WriteBatch` | the write batches of a core and of the store; extends `KvBatch`, implements `AtomicBatch` |
| `ReadBatch` | the read batches of both; extends `WriteBatch`, whose column family it reads |
| `Batches` | the batches one after the other, on one column family; extends `ReadBatch` |
| `Sums` | the total of a list of sizes |
| `Keys` | the two key encoders, the counting passes and the ranges, as operators |
| `KeySpace` | the column family as users of these keys see it; extends `Keys` |
| `Schema` | the sizes and the fields of the five records, as operators |
| `Codec` | a record from its encoder to its decoder, and the memory of a manifest; extends `Schema` |
| `Hashes` | `hc_init`, the namespaces, and what is hashed or signed under them |
| `MCHcCore`, `MCMerkleUpgrade`, `MCStoreCores`, `MCBatches`, `MCKeySpace`, `MCCodec`, `MCHashes` | values of the constants for TLC |
| `NumberProofs`, `MerkleTreeProofs` | lemmas: powers of two, division, least elements, concatenations and sums; the binary counter of the roots and the steps of a merkle append |
| `HcCoreProofs` | the theorems about `HcCore`, and that it implements `AppendLog` |
| `MerkleUpgradeProofs`, `StoreCoresProofs`, `BatchesProofs`, `KeySpaceProofs` | the theorems about these modules |
| `RecordProofs` | the theorems about `Hashes` and `Codec` |

Conventions.  `pc` says where the call in progress is, `"idle"` between calls; the
locals that survive a step are in `frame`.  A definition named after a fault
(`PushLeafUnlimited`, `CreateFailsAgain`, ...) is used by no specification: it is a
plausible bug that replaces the definition after it to show that a property notices.

**`MerkleTree`.**  `upgrade` is `hc_core_upgrade_t`; `forked` stands for
`roots.buffers != NULL` and `capacity` for the capacity of the array.  `write` is the
batch: maps by index, for a later put of the same key wins.  `ForkUpgrade` is the
prologue (lines 15-28), `PushLeaf` the first half of an iteration (31-46), `Merge` and
`MergeDone` the inner loop (48-66), `RootsFull`, `ForkFails` and the failing disjuncts
of `PushLeaf` and `Merge` the returns of -1.  A digest is the sequence of the blocks
it commits to, in the order `hc_crypto_parent` gives the children: two digests are
equal exactly if they commit to the same blocks.  `hc_crypto_tree` commits to the
list of the roots.  Sizes are numbers.

**`HcCore`.**  `dbHead`, `dbTree` and `dbBlocks` are the records under one data
pointer.  `core[h]` is a handle, `status[h]` whether it exists and whether its last
load succeeded: a caller uses a handle only then, or loads it again.  A load reads
the head (`LoadHead`, `LoadEmptyHead`, `LoadHeadMissing`, `LoadHeadFails`), then all
roots in one read batch (`LoadRoots`, or `LoadRootsFails` after any number of them),
then sums (`SumRoots`).  A root that is not stored keeps what the array held, junk
beyond its old length (`ReadRoot`): uninitialised memory is a choice over
`JunkNodes`.  `Flush` is the one atomic write; `Commit` follows as a step of its own,
so that a crash may come between.  `CallLoad` is a load of a handle in use.

**`HcStore`.**  `dbHead` and `dbCores` are the store head and the record of each
discovery key, `rocksOpen` whether the process has the database open, `store` the
`hc_store_t`.  `CallCreate` advances the counters in memory, `CreateFlush` writes
them with the record, `CreateFails` takes them back.  A failed read of the head leaves
the database open, as in the code.  A create does not look whether its key exists.

**`AppendLog`.**  `log` are the durable blocks, `view` the length a handle shows.  A
batch is appended at once; the view follows (`Acknowledge`), or the handle is lost
before it (`CloseView`), and a new one sees the whole log (`OpenView`).  In
`HcCoreLog` the log is what the durable head counts, and the view is the length of a
handle whose load succeeded.  The specification comes in two parts: `LogSafety`, what
a step may be, and `LogFairness`, that a durable batch is acknowledged.

**`StoreCores`.**  `logs` are the blocks behind each data pointer.  `AppendBatch` is a
whole `hc_core_append` that succeeds: that it is atomic is what `HcCoreLog` shows, and
that the handle is up to date is certain if no other open handle has its data.  The
log of a discovery key is found as `hc_store_get` finds it, through the stored record.

**`GrowableArray`, `KvBatch`.**  An array is its entries and its capacity.  `Grown` is
the set of arrays a successful `hc__array_grow` can leave: extended in place, or moved;
failing needs a reallocation (`GrowCanFail`).  An entry is what was queued and whether
it is still where it was made (`here`): `key.buf.buffer` points to the entry's old
place once it moved, and what would be read through it is `Stray`.  `hc__key_slice`
(`KeySlice`) takes the key inside the entry.

**`WriteBatch`.**  The arrays and the head are variables of the names they have in the
structs; `side` says whether the batch is a core's, with `tree_nodes`, `blocks` and
`deletes`, or the store's, with `cores`; `column` is the column family.  `calls` and
`promised` record what was asked for and what room was made, for the properties only.
`Flush` is the loop that builds the writes, in its order, and the one write of
rocksdb; a queueing or an ensure call whose array cannot grow changes nothing
(`GrowFails`).  `WriteDestroy` is also what a crash leaves.  The refinement maps the
arrays to the last put of each key, a set of deleted keys, and the head.

**`ReadBatch`, `Batches`.**  A flush has two parts: `FlushReads` is the call of
rocksdb, whose answer for each entry is an error or the record of the column family,
and then each step of the loop is an action (`NoValue`, `DropAfterError`, `Take...`).
Records in `Undecodable` are those that their decoder refuses.  `Batches` lets a batch
begin when the one before it is gone, as the callers in `src/core.c` and `src/store.c`
do: reads see whatever earlier batches left.

**`Keys`, `KeySpace`.**  A key is a sequence of fields with the sizes of their
encodings; lexkey and compact are assumed to keep the order of values, never to
encode one field as a prefix of another, and never to begin a text with byte 255,
which the end of the aliases of a namespace relies on: a text is its place in the
order, and all places are below `TextEnd`, that of the byte.  `IsRecordName` says what
the encoders are called with, by the sorts of their parameters.  `KeySpace` puts
records with both encoders, makes the two passes over each bound of a range, and
clears the store by its range.

**`Schema`, `Codec`.**  A record is its kind and what decides about its size: the width
of its numbers (1, 3, 5 or 9 bytes), its optional fields, its counts and the length of
its bytes; `IsRecord` is the set of them all.
`PreencodedSize` follows the preencode functions, `Fields` the encode and `ReadOrder`
the decode functions, each on its own, as the code has them: nothing but its place
tells a decoder which field it reads.  `Codec` writes field by field while there is
room, as code that ignores the encoder's error does; `Cut` shortens what is stored;
decoding goes by the flags and counts it has read.  `heap` are the cells in use, `manifest` the pointers of the caller's struct, zero before a decode.

**`Hashes`.**  A hash is its input and key.  `Uint64Le` writes eight bytes of `ByteBits`
bits each, 8 in the code, by shifts and casts.

Assumed of rocksdb: a batch is atomic and durable when reported as written, and a
batch reported as failed left nothing.

## 3. The runs

| run | question | bounds |
|---|---|---|
| `core_log` | Is one handle always what the disk says, is the tree whole, is the core an append-only log to its one user, and does every call return? | 2 blocks (one empty), batches of 1-3, arrays from 1 entry, limit of 3 roots, so that lengths end at 7 and calls that reach 8 fail |
| `core_shared` | What survives two handles that overwrite each other? | 2 handles, 1 block, batches of 1-2, length 7, limit of 4 roots |
| `core_checkout` | Do checkouts, junk and empty batches ever make an append overflow its array? | 1 handle, checkouts to 0 and 3, 2 junk nodes, arrays from 2 entries, limit 4, length 4 |
| `upgrade_calls` | Does it matter how blocks are split into merkle appends? | batches of 0-2, length 6, limit of 4 roots, commits in between |
| `store_logs` | Is any pointer shared or given out twice, and is the store a map from discovery keys to logs? | 3 keys, 2 handles, 4 cores, 2 blocks, logs of 2, symmetric |
| `batches` | Does a flush do what the calls said, at once, and do reservations hold? What do callers get when reads fail, are missing or do not decode? | 1 node, 1 block, 2 cores and the heads; a record that decodes and one that does not; 3 calls, 2 reads, arrays from 1 entry, symmetric |
| `keys` | Do keys name records, do ranges find theirs, do the passes agree? | 2 records at a time of 49 names; numbers on both sides of the one-byte bound |
| `codec` | Do records fit, agree in size, and come back? | narrow and wide numbers, all optional fields, 0-2 elements, bytes of length 0, 64, 300 |
| `hashes` | Are the namespaces ready, and no two statements alike? | 2 keys, 6 numbers, bytes of one bit, 2 statements |
| `core_empty_append`, `core_stale_reload`, `upgrade_capacity` | the findings of section 6 | see there |

*Why the bounds are enough.*  A merge depends on the last two roots only; lengths up
to 7 have every number of roots up to three, merges of zero to two levels, and every
parity of leaf and offset, and a batch of two crosses each of these boundaries.  Two
blocks of different size, one of them empty, tell every order of blocks and every
wrong sum apart.  Two handles are enough for one to be stale; the theorems cover any
number.  In `core_log` arrays grow from capacity 1 and have a limit of 3 entries, in
`core_checkout` from 2 to 4, so that a capacity is tight and the limit is hit in the
middle of a batch; `upgrade_capacity` has the code's 8 and 64.  The runs that a
theorem about trees generalises have `MaxRoots = MaxDepth + 1`, as the code has.
Four cores let a key be created again after the pointers of three others.  Three
entries over arrays that start with one make an array move twice, so that the first
entry is stray when the last one is queued.  Two reads are enough for one to
fail before or after one that succeeds, into the same kind of result.  Whether two
records share a key or two statements coincide is a question about pairs: two at a
time are all there is.  Bytes of one bit with lengths up to 255 use all eight bytes;
300 bytes need a longer count and do not fit a head.

*Empty batches* are in `core_checkout` and `upgrade_calls`.  The other passing runs
leave them out, for an empty append makes the log empty (section 6) and would only
repeat that.

*Deadlock* is checked in every run.  No run needs a state constraint: `MaxLength` and
`MaxCores` are guards of the actions that begin an append or a create.

*Fairness.*  `FairSpec` asks for weak fairness of `CallStep`, the steps of a call that
has begun: the library is synchronous, waits for nothing and has no loop without a
bound.  Nothing is assumed of the caller: no append, load or close has to happen.
Under it, `CallsReturn` holds, and the abstract `Acknowledge` happens.

## 4. The properties

| property | says | would break if |
|---|---|---|
| `HandleMatchesDisk` | a handle is `CoreOver(Log)`: roots, length, byte length | a failed append were committed; a load did not reset the sum; roots overwritten in place by a failed load were used |
| `DurableTree` | every complete subtree of the log is stored and commits to the stored blocks, and the head's hash to the roots | children were hashed in the order they come; a batch were split |
| `LoadIsDefined` | no root or block that the head counts is missing, also with stale handles | a parent were not queued |
| `RootsMatchLength` | the roots are those of the length and add up to byte_length, also with stale handles | the byte length were not reset |
| `ImplementsAppendLog` | a batch appears at once, is acknowledged only when durable, and is never lost | a write reported as failed were applied |
| `HolderFollowsLog` | the handle counts what the disk counts, but between the write of an append and its return | a load returned before it took the length |
| `AppendsAcknowledged` | a durable batch is acknowledged unless the handle is lost | an append could fail after its write |
| `CallsReturn` | every call returns | a loop missed its end |
| `RootsFitCapacity`, `AppendHasRoom` | a root is never pushed past the capacity | the fork allocated for the blocks alone; the limit were not checked |
| `UpgradeIsAppend`, `BatchHoldsUpgrade` | an upgrade is the tree over all its blocks, and its batch is complete | the second call forked again; a parent were not queued |
| `CountersAgree` | between calls the counters are the durable ones | a failed create kept its advance |
| `PointersUnique`, `HandlesApart`, `CreateTakesNewPointers` | pointers are never shared, never given out twice | the old head were stored; the head were not read |
| `ImplementsLogStore`, `NewDataUnwritten` | a created core is empty, an append reaches one key's log only | an append went by the wrong pointer; pointers were given out again |
| `ImplementsAtomicBatch` | queueing only collects; a flush writes all or nothing, under the keys given | a key were taken through its pointer; the head were dropped |
| `OrderKept` | a flush leaves every record as the calls in order leave it; only one that is put after its own delete ends deleted | the deletes went first |
| `ReservationsHold` | between an ensure and its writes no array grows | room were made for n in all |
| `FlushAnswers` | no error means that everything was read, each result from its own key | the last entry's error counted |
| `ErrorStopsResults` | nothing is given out from the first error on | an error counted from the next entry |
| `BuffersOwned` | every value of rocksdb is freed, or a block of the caller's | dropped values were not freed |
| `FoundMeansRecord` | a core that is found has a record that decodes | found did not depend on the decoder |
| `KeysNameRecords`, `RangesExact` | records and keys correspond, for both encoders; ranges are exact | a constant of one header were stale; the sentinel were missing |
| `PassesAgree`, `SizesAgree` | what is counted is what is written, of keys, bounds of ranges and manifests | a part were not counted |
| `KeysFitBuffers`, `RecordsFit` | the widest keys and records fit their buffers | a buffer were too small |
| `DecodedIsEncoded` | no error means the whole record with its flags and counts, each field read as the one it was written as | the decoder had the user data before the links |
| `HeapOwned` | the arrays of a manifest are the caller's or freed, once | a failed decode freed one array only |
| `NamespacesReady`, `StatementsSeparate` | a call of `hc_init` that did not fail leaves the namespaces; no two statements coincide | the flag were set before; a byte of a length were lost |

`AppendHasRoom`, `HolderFollowsLog`, `HcStore!PointersInv`, `StoreCores!LogsInv`,
`WriteBatch!WriteInv` and `ReadBatch!ReadInv` are inductive forms that the proofs of
the next section rest on; `KeySpaceInv`, `CodecInv` and `HashesInv` stand in the modules
of their proofs.

## 5. The proofs

TLC checks small instances; these hold for every value of the constants, under the
assumptions named in the modules: `MaxRoots > MaxDepth` (64 roots for lengths below
2^64), an initial capacity that is not 0, batches of known blocks, block lengths and
checkout lengths that are natural numbers, keys of different kinds that differ,
values that stand for "none", records and record names that are those of the format
(`IsRecord`, `IsRecordName`), and lengths and forks of eight bytes.  Some theorems say how the core is used; these hypotheses
are in their statements, and the runs of the same properties satisfy them:

- `OneHandleUse`: one handle on the data, no checkout (a stub) and no empty append
  (finding 1).  What an append-only log promises needs all three: two handles
  overwrite each other's blocks, which is what `core_shared` is about.
- `PlainUse`: any number of handles, no checkout, no empty append (finding 2), and
  `MaxRoots = MaxDepth + 1`, which is the code's: 64 roots, and lengths of 64 bits.
  With a limit above that, the guard at line 31 would let lengths grow past the
  greatest depth.
- `OneTreeUse`: both.

**Room** (`HcCoreProofs!TypeCorrect`, `AppendAlwaysHasRoom`, `NoRootOverflow`).  Types
first: the lemma that matters is `ParentType`, that the index of a parent is a natural
number although libflattree computes it by subtraction; the induction over the merge
loop carries a well-formed iterator.  `RootsFitCapacity` is not inductive, for it does
not say how many leaves are still to come.  `Room` does: in the loop the upgrade has at
most as many roots as the core plus the iterations so far, and the array has room for
the core's roots and twice the count, or for the limit of roots, which the guard at
line 31 enforces.  Nothing in the argument needs the roots to be right: it covers stale
handles, checkouts and junk.

**The tree** (`RootsAlwaysMatch`, `LoadAlwaysDefined`, `TreeAlwaysDurable`,
`HandleAlwaysMatches` in `HcCoreProofs`, `UpgradeAlwaysAppends`, `BatchAlwaysHolds` in
`MerkleUpgradeProofs`).  These invariants speak about the same
loop from different sides, so that it is proved once.  `Growing(nodes, c)`
(`MerkleTreeProofs`) says where an append that started from the core `c` stands: between
two leaves the roots are those of the length, their sizes add up, and the batch has
every subtree completed since (`Grown`); in the merge loop the last root is the subtree
of some depth that ends at the length, and what is missing in the batch are the deeper
subtrees that end there (`Merging`).  `nodes` says which nodes may stand at a place:
`NodesOver(blocks)` allows only the node over these blocks, and serves one log;
`IndexedNodes` allows every node with the right index, which is all that can be said
behind a stale handle.  `MerkleStepGrowing` is the induction step, for any such map.
It rests on a binary counter: the roots of n + 1 leaves are those of n with a
carry, and a leaf merges while its number is odd, then half of it, and
so on.  `RootCount`, `RootDepth` and `RootStart` are defined by the digits of the
length, without recursion, and never by appending.

Around the loop three inductive invariants carry the result.  `TreesInv` is for any
number of handles: the subtrees of every open handle's length, and of the durable head,
are stored (`Backed`), for nodes are overwritten by appends of stale handles but never
removed, and an overwriting node has the same index.  `LogStands` is for one handle:
the handle, the upgrade at its commit, and the stored tree are those over `Log`.
`UpgradeInv` is for an upgrade through any number of calls: it grows to the tree over
`Whole`, the committed, the pending and the current blocks.  The upgrade theorems say
what the roots are, not where they are stored: past the capacity of finding 3 the
memory of the array is not what they speak about.

**The log** (`HolderAlwaysFollowsLog`, `CoreIsLog` in `HcCoreProofs`).  The
refinement of `AppendLog` needs to know that the handle that appends is not behind the
disk: otherwise `Flush` would replace blocks.  `HolderFollowsLog` says so, with what
the steps of an append and of a load have counted so far.  With it each step maps:
`Flush` appends the batch, `Commit` acknowledges it, the end of a load opens the view,
a failed load, a close or a crash closes it, and all others stutter.

**The store** (`StoreTypeCorrect`, `CountersAlwaysAgree`, `PointersNeverShared`,
`HandlesStayApart`, `PointersNeverReused` in `StoreCoresProofs`).  `PointersUnique` and
`HandlesApart` need to know what a call holds between its steps.  `CallHoldsPointers`
says that within a create the frame holds the durable counters and the counters in
memory are one ahead, and `HandlesOwnData` that no record of another key has the data
of an open handle.  Their conjunction `PointersInv` with `TypeOK` is inductive:
`CreateFlush` is the only step that changes the disk and stores pointers equal to the
old counters, above all others (`CreateFlushPointers`); opening a handle copies a
record (`OpenPointers`); all other steps at most drop handles (`SameDiskPointers`).
`PointersNeverReused`, about steps, follows from the same invariant.

**The store's logs** (`NewDataNeverWritten`, `StoreIsLogs`).  The store is a map from
discovery keys to logs, although keys are found through pointers.  `LogsInv` adds to
`PointersInv` that nothing is written at or above the durable data counter: the two
counters advance together, so the bound on the cores is one on the logs, and an open
handle's pointer is below.  Then a create shows an empty log, an append changes the
log of the one key whose record has its pointer, and nothing else changes a log.

**The batches** (`BatchTyped`, `OrderAlwaysKept`, `ReservationsKept`, `BatchIsAtomic`,
`FlushAlwaysAnswers`, `ErrorAlwaysStops`, `BuffersAlwaysOwned`, `FoundAlwaysRecord` in
`BatchesProofs`), for batches of any size.  `WriteInv` ties the arrays to the calls:
every entry that was moved is still found under its own key (`ArraysHold`), and the
last write of each array is the last call for each key (`CallsQueued`); what a
concatenation of writes leaves is `LastWritesConcat`.  A flush puts before it deletes,
so `PutTooLate`, the keys put after a delete of theirs, are where it may differ from
the calls in order, and nowhere else (`WritesAreCalls`).  `ReadInv` divides the entries of
a flush at the loop's position: those before it are written, freed or dropped as their
answer and the error so far demand (`Passed`), those from it on are untouched (`Ahead`).

**The keys** (`KeySpaceSafe`, `KeysAlwaysName`, `RangesAlwaysExact`,
`PassesAlwaysAgree`, `KeysAlwaysFit` in `KeySpaceProofs`), for any records, any number of
them at a time.  The inductive invariant `KeySpaceInv` is that the column holds what was
written, each record under `EncodeKey`; its step rests on three lemmas about every record
name.  `KeysSeparate`: a key determines its record, for the namespace and the subtype
tell the kind and the other fields are the arguments.  `SmallKeyIs`: the other header's
constants give the same keys.  `InSpaces`: all keys lie in the range that a clear removes.
A range is decided at the first field in which a key differs from its bounds
(`BeforeOne` to `BeforeThree`), so that `InWholeRanges`, `InAliases` and `InSubtype`
are questions about one number each: the next namespace, the sentinel after the texts,
the next subtype.  `PreencodeIs`, `StoreBoundsCounted` and the like, and `KeyFits` compare sums of
widths.

**The records** (`CodecSafe`, `RecordsAlwaysFit`, `SizesAlwaysAgree`,
`DecodedAlwaysEncoded`, `HeapAlwaysOwned` in `RecordProofs`), for records with any number
of signers and links and bytes of any length.  None of the four properties is inductive:
that a field has room needs to know what was written before, and that a decoder knows
the record needs to know what it has read.  `CodecInv` says that what is stored is a
prefix of `Fields(record)`; that a decoder at some field knows the flags, counts and
lengths of the fields before it (`Known`), so that it looks for the field that was
written there, although what it looks for is computed from what it has read
(`LearnIs`) and in the decoder's own order, which `ReadOrderIs` shows to be the
encoder's; and that an array of the manifest exists only once its count was read
(`PointersOf`), so that a failure frees what there is and nothing is allocated twice.
The fields of a manifest that follow its arrays have no fixed place: `ManifestAre` gives
each its place by the counts before it.  `SizesAre` to `SizeTimes` add the sizes of
concatenated and repeated fields, for the comparison with the preencode functions, and
`PrefixFits` and `RoomForField` turn a total that fits into room for each field.

**The hashes** (`NamespacesAlwaysReady`, `StatementsAlwaysSeparate` in `RecordProofs`).
`HashesInv` says that the flag is set only with all namespaces filled, and that every
statement was made under them as its constructor makes it; so two statements with the
same bytes are of one constructor (`KindsSeparate`), and their arguments agree.  For
lengths and forks that is `BytesSeparate`: eight bytes determine a number below
2^(8 `ByteBits`), for division by powers of two composes (`DivAgain`).

*Induction in these proofs.*  A sum, a power or the place of a field is an induction over
numbers.  Where one is needed it is by a least counterexample: the set of numbers at which
a claim fails is empty or has a least element (`NumberProofs!LeastNumber`), and from the
claim at the number before follows that it does not fail there.  No library theorem with an operator for a parameter
is used.

**Only model-checked.**  Liveness under fairness and `ENABLED` are out of the prover's
reach: `CallsReturn` and `AppendsAcknowledged`, the fair half of the refinement, stay
with TLC.  Every other property of a passing run is a theorem.  The
properties of the three runs of the next section are violated by the code, which is for
TLC to show.

## 6. Findings

1. `core_empty_append`: `hc_core_append` with a count of 0 makes the core empty.  The
   merkle append returns before the fork, so that the upgrade's length is still 0,
   and this upgrade is written to the head and committed.
2. `core_stale_reload`: a load that finds a head of length 0 returns before it
   assigns the roots and the byte length.  A handle that had blocks keeps them under
   length 0.
3. `upgrade_capacity`: the array of roots is allocated for the first append on an
   upgrade.  A later append on the same upgrade can have more roots than that.
   `hc_core_append` uses one append per upgrade and is not concerned
   (`NoRootOverflow`).

Also seen, without a run, for no state of the library goes wrong by it: a comment in
`include/hc/merkle_tree.h` (line 32) says that the merkle append writes block data to
the batch, which `hc_core_append` does; and the comment on
`hc__db_store_read_get_head` (`include/hc/db.h` 541) says that the result is
populated with a zero head on a miss, which the flush leaves to its caller:
`hc_store_init` clears the head itself.

`hc_core_checkout` is declared as a stub (`include/hc/core.h` 38-39): what it does to
the log is not counted as a finding.

## 7. Not modelled

Signing, key pairs and random bytes only call libsodium.  libsodium, lexkey, compact,
libflattree and rocksdb are external, with the assumptions of section 2.  The column
family options, the tests, the benchmarks and the build are configuration or users of
the library.  `core->fork` is never anything but 0.  Memory that is only allocated and
freed within one call is left out, except for the capacities of arrays, the buffers
of a read and the arrays of a manifest.  Block numbers and lengths are unbounded
naturals: a length of 2^63 or more, where a flat tree index would wrap, is out of
reach of a log that stores every block.

- `hc_init` from several threads: nothing in the library says that it may be called so.
- A write that rocksdb reports as failed and that is durable nevertheless: the create
  would give its pointers out again.  rocksdb does not say when this can happen.
- Reads that share a result, and a batch that is flushed twice: no caller does either.
- A manifest decoded into a struct that is not zero: the failing decoder would free
  what it finds there; `test/manifest.c` clears it first, and the model starts there.
- The values in a record: `Codec` looks at what decides about sizes and fields.  That a
  number comes back as it was is compact's.
- The longest local key (`HC_KEY_CORE_LOCAL_MAX`) is used by no code.

## 8. State and plan

Every part of the library with logic of its own is modelled, and every property of a
passing run is proved, but for liveness.  What could follow:

1. the values in a record: `Codec` looks at sizes and fields only, and one width stands
   for all the numbers of a record;
2. checkout, when it is no longer a stub: `HandleMatchesDisk` and the refinement then
   need a log that can be cut;
3. several handles on one log, if a lock or a check of the head is added: `OneHandleUse`
   would become a consequence of it;
4. the kinds of records that have keys and no code yet (auth, sessions, hints, marks,
   bitfields, user data): so far only their names are modelled.
