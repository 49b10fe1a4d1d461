# simple_leveldb: TLA+ models and proofs

simple_leveldb is a C++20 rewrite of LevelDB in progress. This directory holds a
TLA+ model of the parts that are written, TLC configurations that check them on
small instances, and TLAPS proofs for every instance. All line numbers refer to
the sources under `src/`.

At this commit the program does not link (`pick_compaction`, `compact_mem_table`
and others are declared and never defined), `db_impl::Write` and
`version_set::builder::save_to` are empty, and most of `posix_env` is empty stubs
(posix_env.cc:472-488). What is written is modelled as it is; what it calls and
the repository does not define is taken from how the code uses it (an `env` the
caller supplies in `options.env`).

## 1. Inventory

| Component | State | Operations | What is hard about it | What makes it correct |
|---|---|---|---|---|
| LRU cache shard (cache.cc) | hash table, LRU and in-use lists, `usage_`, a count per entry | insert, look_up, release, erase, prune, destructor | an entry is in one of two lists or in none, and moves when its count changes | counts equal the handles given out; lists, table and usage agree; deleters run exactly when an entry becomes unreachable |
| Skip list (skip_list.h) | nodes with atomic pointers, `max_height_` | insert (one writer), iterators (no lock) | release/acquire ordering, readers between the writer's stores | no uninitialized pointer is followed; searches and iteration miss nothing |
| Log (log_write.cc, log_reader.cc) | block offset of the writer; buffer and fragment state of the reader; the file | add_record, read_record | crash in the middle of a record, damaged bytes, block boundaries | what was synced is read back; nothing else is; damage stays local |
| Opening a database (db_impl.cc, version_set.cc, filename.cc, env.cc) | LOCK, CURRENT, MANIFESTs, logs; the numbers of `version_set` | Open, NewDB, recover, log_any_apply, reuse_manifest, RemoveObsoleteFiles | every call may fail, the process or the machine may stop anywhere, two processes | CURRENT always names a durable manifest; states are installed as a whole; nothing in use is removed |
| Background work (db_impl.cc:400-493) | `background_compaction_scheduled_`, `imm_`, `manual_compaction_`, `bg_error_` | MaybeScheduleCompaction, background_call | flags read before they are set, destructor beside the thread | one call at a time, work ends |
| Versions (version_set.cc) | circular list, counts | append_version, ref, un_ref, the builder | versions that unlink themselves, references across failing calls | the list holds exactly the live versions, whatever fails |
| Version edit, write batch, coding | none (values) | encode, decode | fields that two functions must agree on | decoding undoes encoding |
| Internal keys (db_format.cc, comparator.cc) | none (values) | compare, find_shortest_separator, find_short_successor | a shortened key and the numbers packed behind it | a separator still separates |
| Checksums (crc32c.cc) | none (values) | Extend, Mask | alignment, four interleaved lanes, tails | the same value on every path |
| Random numbers (random.h) | the seed | next | a remainder without a division, seeds that never change | the product modulo M, never 0 or M |
| Posix files, limiter (posix_env.cc) | 64 KiB buffer; atomic counter | append, flush, sync, close; acquire, release | errors half-way, concurrent calls at the limit | bytes reach the file in order; the counter stays in bounds |
| Arena (arena.cc) | current block, bytes left | allocate, allocate_aligned | alignment, large requests | allocations do not overlap |
| Memory table (memory_table.h) | a skip list and the arena it lives in | allocation of keys and nodes by the writer | nodes of variable length, pointers beyond the declared array | no pointer is stored outside its node |
| Table cache, mutex wrappers, status, slice, options | - | - | no behaviour yet | - |

They interact by calls: Open creates a `version_set`, which reads and writes
MANIFESTs through the log; the memory table is a skip list on an arena; table
cache and block cache are LRU caches. Only the skip list and the background
thread share state without a common mutex.

## 2. Modules

| Module | Models | Extends / instantiates |
|---|---|---|
| `CacheSpec` | what cache.h promises | |
| `LRUCache` | `lru_cache`, `lru_handle` | instantiates `CacheSpec` |
| `LRUCacheProofs` | | `LRUCache` |
| `TableSpec` | the map `LRUCache` takes its hash table for | |
| `HandleTable` | `handle_table`: buckets, chains, resizing | instantiates `TableSpec` |
| `HandleTableProofs` | | `HandleTable` |
| `SkipList` | `skip_list`, its iterator | |
| `Arena` | `arena` | |
| `MemTable` | `mem_table`: the list and the arena together | `SkipList`, `Arena` |
| `MemTableProofs` | | `MemTable` (and so `SkipList`) |
| `Log` | `log::writer`, `posix_writable_file`, a crash, `log::reader` | |
| `LogProofs` | | `Log` |
| `DbState` | what Open promises of the directory | |
| `Filename` | the names of files and `parse_file_name` | |
| `VersionList` | the versions of a `version_set`, `version_set::builder` | |
| `DbOpen` | `db::Open` and all it calls | `Filename`, `VersionList`, instantiates `DbState` |
| `DbOpenProofs` | | `DbOpen` |
| `WritableFile` | `posix_writable_file` | |
| `WritableFileProofs` | | `WritableFile` |
| `RandomAccess` | random-access files and the limiters they share | |
| `RandomAccessProofs` | | `RandomAccess` |
| `Coding` | varints, fixed numbers, length-prefixed slices | |
| `VersionEdit` | `version_edit`, written and read back | `Coding` |
| `WriteBatch` | `write_batch::Put`, `Clear` | `Coding` |
| `Crc32c` | `Extend`, `Mask`, `Unmask` | |
| `InternalKey` | `internal_key_comparator` | |
| `Random` | `random` | |
| `UtilityProofs` | | `Random`, `InternalKey`, `VersionEdit`, `Crc32c` |
| `MC...` | constants for TLC | the module they are named after; `MCVersionEdit` and `MCPosixFiles` several that share no state |

### LRUCache

The shard is a record (`shard`); the member functions are operators from a shard
to a shard (`LruRemove`, `Ref`, `UnRef`, `FinishErase`), so that an action reads
like the code: `Insert` is `Allocate`, then `CacheEntry` if `capacity_ > 0`. All
operations hold `mutex_`, so each is one step; the two eviction loops take one
step per iteration (`EvictOldest`, `LoopDone`) while `running` keeps others out.
`held` counts the handles clients were given. The hash table is a function from
keys to entries; the order of the in-use list is never used and is abstracted to
a set. `CacheSpec` knows only mapping, pins, live values, and requires the
deleter to run in the very step in which an entry becomes unreachable.

### SkipList

Shared memory is the sequence `stores` of all stores to `next_` pointers. A
reader has a view, a prefix of that sequence; a load returns the newest store of
the cell in the view or any later one, and a load of a release store extends the
view (`Loads`). If no store to the cell is in the view, the load may also return
`Junk`, the uninitialized memory of the arena. `max_height_` is relaxed: a reader
may see any value it ever had. `insert` is modelled pointer by pointer, searches
one iteration at a time. `random_height` returns any height. `contains` is a seek
with a comparison and is left out; `seek_to_first` calls `Next`, which does not
exist, and is left out.

### Arena, MemTable

An address is a block and an offset in it (`operator new[]` aligns a block for
any object). `Arena` has the operations as operators from an arena to an arena
(`Allocate`, `AllocateAligned`, and the fallbacks to a new block or to a block of
a large object's own); `handed`, which the code does not have, records what was
handed out.

`MemTable` is the composition. One writer allocates: the bytes of a key when it
begins an insert (`Add`), a node when it has drawn the height (`NewNode`, whose
size depends on that height). `nodeAt` is the memory of every node. The node's
`next_` array is declared with one pointer and indexed up to the height, so
whether a store stays inside its node is a matter of `new_node`'s arithmetic and
of the levels the list uses: `MemorySafe`. `mem_table::add` is declared and not
defined; that the key's bytes come from the same arena is how `skip_list` and
`arena` are documented to be used. The arena's destructor is not modelled.

### Log

Bytes are `<<i, j>>`, the j-th byte of the i-th physical record. One step per
fragment (`EmitFragment`) or per failed write (`EmitFails`, any number of bytes
written); `Sync`; `Reopen` cuts the file anywhere behind the synced prefix and
may damage bytes; then one step per block read and per physical record of the
reader. `MaxDamaged` bounds the bytes that are damaged: one in the runs, any
number in the proofs. A damaged length or type byte reads as any other value; the
checksum is taken to detect every change. The initial offset is 0, as in the only caller
(version_set.cc:306): with it `read_record` never skips.

### DbOpen

One action for every call to `env` that may fail or changes the directory; `pc`
names the place. `Exit` is the death of a process, `MachineCrash` loses anything
that was not synced (a suffix of a manifest's records, a new file with its name,
the data of CURRENT if its temporary file was not synced). `RecoverLogs`
stops at the failing assertion of `RecoverLogFile`; the rest of that function is
not reached. A process whose Open failed may call it again; LOCK is then still
its own, because no path unlocks it.

`SelfLinked` names the one departure from the code: for each process, the versions
whose constructor links them to themselves. In the code there is none: `version`'s
constructor leaves `prev_` and `next_` null, so `version_set`'s constructor follows
the null `prev_` of the head and Open never gets further (`NoneLinked`, run
`db_open_head`). To say anything about the rest of Open it has to be repaired, and
there are two ways. With only the head linked (`HeadLinked`), every version that is
appended gets its links from `append_version`, but one that is not has none: a
`log_any_apply` that fails deletes such a version, `~version` follows its null
`prev_`, and the process dies (`DeleteUnlinked`, run `db_open_delete`). With a
constructor that links every version, as `next_( this ), prev_( this )` would, it
goes on (`ApplyRemove`). `db_open` has a process of either kind (`MixedLinks`), and
the theorems hold for any choice: null pointers are places where a process ends
(`Null`), and what is claimed of the list is claimed up to there.

`ReuseLogs` is the set of processes with `options.reuse_logs`, `NDebug` the set of
those built without assertions. An assertion that fails ends a process of the
first kind. One of the second kind goes on: `RecoverLogFile` asks for LOCK a
second time, is refused, and Open fails; `reuse_manifest` returns false and a new
manifest is written.

Every process has the list of versions its `version_set` keeps (`VersionList`):
three versions at most, the first one, the one `recover` builds and the one
`log_any_apply` builds, linked through `prev_` and `next_` and deleting themselves
when their count is zero. The builder of `recover` keeps the version it starts
from beyond the append of the new one, the builder of `log_any_apply` ends before
the manifest is written; each failing call takes a different way out
(`RecoverFailed` with the builder's reference, `ApplyDeletes` or `DeleteUnlinked`
without it). A freed version keeps its pointers, so that an
`Unlink` through one would damage the list the model looks at.

A file is its
name, built by `Filename` from a word, a numeral and a suffix; what
`RemoveObsoleteFiles` keeps and which logs are replayed go through
`ParseFileName`, so a name that does not read back as what it was written as
would be a wrong deletion.

`MaybeScheduleCompaction`, the info log and `create_dir` are not part of the
model.

### HandleTable

A slot (`lru_handle**`) is a bucket's number or an entry, whose `next_hash` it
then is. `find_pointer` takes one step per entry of the chain (`Walk`), `resize`
one per doubling of the new length (`GrowLength`), per entry moved (`MoveEntry`)
and per bucket (`NextBucket`), so that the table can be looked at in the middle of
a resize. `hash & ( length - 1 )` is a remainder, since a length is a power of two. `Table` maps the chains to the
entry of each key, and `ImplementsMap` says that every call does to it what
`TableSpec` says: this is the step from the chains to the function that
`LRUCache` has in their place. `lru_cache` holds its mutex around every call.

### WritableFile

A byte is its number among the bytes appended, so that loss, doubling and order
can be told apart. A `write` takes any non-empty part of what it is given
(`WriteSome`) or fails (`WriteFails`). The code sets `pos_ = 0` also when the
flush failed: the bytes are gone. `BufferExact` says that as long as nothing has
failed, file and buffer are exactly what was appended, and that after a failure
the file may have gaps but nothing twice or out of order. `Log` has its own view of the file, as physical records.

### RandomAccess

One place (`pc`) per thread. `limiter::acquire` is a `fetch_sub` (`Acquire`) and,
if the old value was not positive, a `fetch_add` (`NotAcquired`); what other
threads do in between is the point of the model. `get_file_size` is one of the
empty stubs and returns no value, so it fails or succeeds arbitrarily. What the
reads return is not modelled. Files that are written and files that are read share no
state: in `MCPosixFiles` each behaviour chooses one kind (`subject`).

### Coding, VersionEdit, WriteBatch

`Coding` works on sequences of bytes with the sizes as constants: groups of
`Base` (128), numbers below `Max32` and `Max64`. A byte is below `2 * Base`. With
a small `Base` an instance meets every length of a varint, the last one included,
whose top group is only partly used. A varint, the number it holds and the capacity
of some groups are recursive functions, which the proofs can unfold.

`VersionEdit` fills an edit by the setters, encodes it and decodes the record,
whole or cut anywhere, one field per step. Nothing fills compact pointers or
deleted files: the only call of `set_compact_pointer` (version_set.cc:446) is for a
`compact_pointer_` that is not empty, and none ever is. The loop of `encode_to` that
writes them (version_edit.cc:91-95) is therefore not in `Encoding`, and `RoundTrip` is
about edits without them; it would be false of the others. Tag 5 (`kCompactPointer`) is read as the code reads it, into the
deleted files (version_edit.cc:173); nothing writes it.

`WriteBatch` has the header of sequence number and count. `set_sequence` has no
caller.

### Crc32c, InternalKey, Random

Three more pure components. With `VersionEdit` they are composed in
`MCVersionEdit`: they share no state, so each behaviour chooses one (`subject`).

`Crc32c` has one step per iteration of each loop of `Extend`: bytes up to an
aligned address, four interleaved lanes, single words, the combination of the
lanes, bytes again. A word is the set of the positions of its ones. `exact` is
the remainder, bit by bit, of what has been read so far. The tables of the code
are computed from their definition: the remainder `Carried` over so many bits of
zeros. Data is all zeros except for one bit, of a byte or of the checksum that is
extended: every operation is affine over bits, so these inputs decide all others
of the same length and alignment, and the proof (section 5) needs no such
restriction. The accelerated variant is part of the port and absent.
`Log` takes checksums as free of collisions.

`InternalKey` takes a pair of keys and shortens the first any number of times by
`FindShortestSeparator` and `FindShortSuccessor`. The user's comparator is a
parameter with what comparator.h promises of it (`bytewise_comparator`'s bodies
are empty).

`Random` is the constructor and `next`; the shift and the mask of `next` are a
quotient and a remainder by M + 1. `uniform`, `one_in` and `skewed` are remainders
of its results and are left out.

## 3. Runs

| Run | Instance | States | Shows |
|---|---|---|---|
| `cache` | 2 keys, 3 entries, capacities 0 and 2, charges 1 and 2, 2 handles per entry | 29 242 | counts, lists, table, usage, no leak; implements `CacheSpec`; eviction ends, within the capacity |
| `handle_table` | 4 keys, 6 entries, 3 keys in one bucket of 2 | 126 601 | implements the map of `LRUCache`, also during a resize; calls end |
| `skip_list` | 3 keys, 2 levels, 1 reader, blocks of 112 bytes | 196 432 | reads are safe and exact, memory is the list's own; searches end |
| `log` | blocks of 7 bytes, headers of 3, 3 records of 0, 1 or 6 bytes, one damaged byte | 501 241 | alignment, no forged record, damage is local, synced records return, no false alarm; reading ends |
| `db_open` | 2 processes, both with `reuse_logs`, one without assertions, one with only the head linked and one with every version, numbers up to 6 | 46 251 | crash safety, isolation, sound version lists; implements `DbState`; Open returns |
| `posix_files` | buffer of 3, appends of 1, 2, 4, 7, 8 bytes in all; 3 threads, both limits 1 | 51 773 | nothing lost, doubled or out of order, syncs durable; slots exact, limits hold, no leak |
| `version_edit` | groups of 2 bits, 2 files per edit; words of 12 bits; user keys of 3 letters; modulus 127 | 844 834 | decoding undoes encoding and accepts nothing else; checksums, separators and random numbers are right |
| `log_fragments` | 3 records | - | violated: a record in fragments is lost |
| `db_open_head` | 1 process, no version linked (the code) | - | violated: null dereference in Open |
| `db_open_delete` | 1 process, the head linked | - | violated: null dereference when `log_any_apply` fails |
| `db_open_replay` | 1 process, the head linked | - | violated: assertion of `RecoverLogFile` |
| `write_batch` | 2 puts | - | violated: the count of a batch stays 0 |

The first seven finish without an error; each of the last five has the
counterexample of a finding below. They finish in two minutes at most.

Why the bounds are enough. Cache: three entries on two keys with capacity 2 give
a displaced entry that is held, an eviction past a pinned entry and an insert
that finds nothing it may evict (its own entry is held meanwhile); capacity 0 takes the branch that does not cache. Handle
table: a chain of three is walked, changed at its head, middle and end, and part
of it moves to another bucket when the table grows; two entries of one key
replace each other. Skip list: three keys give an insert before, between and
after what a reader has seen, two levels a descent during linking; the readers
do not write, so one shows what any number would (the proofs cover all). Its
memory: the keys' 27, 28 and 29 bytes lie on both sides of a quarter of a block,
so that they share a block, fill one up and get one of their own, and leave
offsets that the next node has to align. Log:
with blocks of 7 a record of 6 is split, one of 1 leaves exactly a header, one
of 0 ends a block short of a header, so all branches of padding and type occur.
Each byte may be the damaged one; with two damaged bytes and two records the same
invariants were found to hold, and the proofs cover any number.
Open: numbers up to 6 let a second complete Open follow a first one whose log the
machine lost; a process that sets `reuse_logs` also takes every path of one that
does not, because each step of reusing may fail. Writable file: appends fit the
buffer, fill it exactly, spill over
once and exceed what is left by a whole buffer. Random access: two threads race
for the last slot while a third gives one back. Version edit: the numbers take
two bytes and the most a varint can take, the name's length takes two, a file has
every kind of field, and every cut of the record is read. Checksums: lengths of
2, 18, 35 and 47 bytes from each of the four alignments end before the first
aligned address, skip the interleaved lanes, take them once and twice, and leave
up to three words and three bytes, with the one bit of data in each position.
Keys: user keys of up to three letters have prefixes, neighbours and room to
shorten. Random: every seed, and arguments of one bit more.

Fairness. The eviction loops, the walks along a chain, the moves of a resize and
the searches are loops of a running thread (weak fairness on their steps only; no
client is forced to call anything). The log reader's caller loops until
`read_record` returns false (version_set.cc:310). A process inside Open runs on,
and the calls of `env` return, LOCK's by failing. Nothing is assumed of crashes,
exits or of a caller's retries. The other modules state safety only and assume
no fairness.

Deadlock is checked in every run.

## 4. Findings

1. log_write.cc:64: the last fragment of a record gets type `kMiddleType`
   (`else if ( begin )` twice), so every record that crosses a block is lost.
2. version_set.cc:24-32, 474-475: the links of the head of the version list are
   null, and `db::Open` follows them.
3. version_set.cc:251, 37: a `log_any_apply` that fails deletes a version that is in
   no list, and `~version` follows its null links. A repair of finding 2 that links
   only the head leaves this one; one of `version`'s constructor removes both.
4. db_impl.cc:331: reopening a database that has a log to replay fails an
   assertion.
5. write_batch.cc:25: `Put` stores the count it has read back unchanged, so the
   count of a batch is always 0, against the comment at lines 10-11.

Met while modelling, without a run of their own:

* version_set.cc:498: an `env` without appendable files fails an assertion instead
  of falling back to a new manifest (action `ReuseUnsupported`).
* version_edit.cc:173: a compact pointer is read as a deleted file (`GetField`);
  nothing writes one yet.
* log_write.cc:15: the loop ends before `kLastType`, whose checksum is never
  initialized. No record has that type as long as finding 1 stands.
* log_reader.cc:32: the result of `skip_to_initial_block` is taken the wrong way
  round. The only caller starts at 0 and never gets there.
* posix_env.cc:192: `offset + n > length_` wraps for an offset near 2^64.
* db_impl.h:48: `dbname_` is a reference to the caller's argument.

## 5. Proofs

All theorems hold for every value of the constants under the ASSUMEs of the
modules (non-empty key sets, natural capacities and charges, a null handle that
is no entry, keys that are numbers, a header of at least 3 bytes smaller than a
block, sizes that are not zero, room for at least four file numbers, an order of
user keys that is total, a polynomial, a rotation and an offset that fit a word; that
names, keys, tags and the number of levels are
shorter or smaller than 2^32, and that internal keys are not empty).

* `LRUCacheProofs`. `IInv` couples each entry's count, its list and its table
  slot to `held`: an allocated entry has `held[h]` references plus one if
  `in_cache`; the LRU list is duplicate-free and has exactly the cached entries
  with `held = 0`. It has to be stated for all entries at once, because an insert
  touches two. The lemmas follow the code: what `LruRemove`, `Ref`, `UnRef`,
  `FinishErase` do to a shard that satisfies part of it. `RefsAreExact`,
  `ListsAreRight`, `TableIsRight` and `NoLeak` follow. `ShardImplementsContract`
  is the refinement of `CacheSpec`: since an entry is allocated exactly while it
  is mapped or pinned (`LiveIsReachable`), the deleter has run when it had to after
  every step, and what remains to show is what each operation does to the table.
  `UsageIsExact`: `usage_` is a sum over a set, stated without one as the number of
  `Units`, an element for each unit of charge of each cached entry; units of
  different entries differ, so that an entry that comes or goes changes the number
  by its charge. `InsertKeepsCapacity`: the mutex is free only if the usage is
  within the capacity or every cached entry is held, the safety half of
  `CapacityRestored`.
* `HandleTableProofs`. What links lead to is the least set of entries that no link
  leaves (`Reach`), and an entry is on no cycle if it is not reached from its own
  link (`Straight`). Three lemmas say what a store to a link does: nothing to a chain
  it is not in (`StoreElsewhere`), and in its own chain it replaces what is behind
  (`StoreInside`); `StoreSound` puts them together for all buckets. The recursion
  that the model uses to follow a chain computes the same set (`ChainIsReach`): it
  takes one entry at a time out of a finite set, and in a smallest set where the two
  differed they would agree. `IInv` sees one set of chains (`Heads`), the buckets
  and, at negative numbers, those of the new table while a resize moves entries:
  every chain ends and shares no entry with another, an entry is in the chain of its
  hash, no two have the same key, `elems_` is their number, and `find_pointer` has
  passed no entry of its key. `ElemsAreExact` follows, with the assertion of
  `resize`. `TableImplementsMap`: the entry of a key is the only one present with it
  (`EntryIs`), so that a step which changes nothing of what is present, like each
  step of a resize, is not seen, and `insert` and `remove` do what `TableSpec` says.
* `MemTableProofs`, the list. The difficulty is memory order: a reader's knowledge
  (its view) has to contain the initialization of each node it can reach, at every
  level it can descend to. `IInv` says that a release store of a pointer to a
  node at level l comes after a store to each of the node's own levels up to l,
  that a reader at node x and level l has those in its view, and that the writer's
  `prev` are linked. `ReadersSafe` (no uninitialized load) and `PointersSorted`
  follow, for any number of keys, levels and readers. What readers find rests on a
  second invariant, of the history of stores (`XInv`, `HistoryInvariant`): a pointer
  that may still be loaded skips no key behind its node that was published by then
  (`NoneSkipped`), the newest store to a cell is what follows the node now
  (`NewestIsNext`), every listed node was initialized before (`InitializedListed`),
  and levels nest while `insert` links (`ListLevelsNest`). A search that was in front
  of its target therefore never passes a key it must return: `SearchesExact`,
  `IterationsExact`.
* `MemTableProofs`, the memory. `MemTableRunsList`: every behaviour of the memory
  table is a behaviour of the list, so that every theorem about the list holds of it
  (`TableReadsExact`). For the
  memory, one lemma per arena operation shows that it keeps objects apart, given
  that the current block is the tail of a block that nothing reaches
  (`CurrentBlock`, `HandedBefore`: the invariant's strengthening); and that every
  node has the bytes for its levels. `MemoryIsSafe` follows, for every block
  size, alignment, pointer size and length of keys.
* `DbOpenProofs`. `CurrentAlwaysRecovers`, `NumbersAlwaysFresh`,
  `OpenIsAlwaysRecoverable`, `VersionsAlwaysExact`, and `OpenImplementsRegister`:
  each step of any process, and each crash, is a step of `DbState` or changes
  nothing it sees. They hold for any set of processes, with any of them built with
  or without assertions and reusing logs or not, and whatever versions their
  constructors link (`SelfLinked`); for what the code links, none, they say that
  Open ends in the constructor. `IInv` says three things. At most
  one process is inside, the owner of LOCK (`Inside`). What CURRENT names has a
  durable edit, and each manifest at most one, whose numbers lie just above the
  manifest's own (`DiskOK`). The one process inside is at a place whose local
  numbers agree with the disk (`PlaceOK`, one conjunct per group of places) and
  whose version list is `current_` alone or, between the two halves of
  `log_any_apply`, `current_` beside a version that is in no list (`VersionsOK`). That
  numbers are fresh follows from the second part, and would not be inductive without
  the third: what makes a number fresh is the edit that was read several steps
  earlier. The refinement rests on one idea, `Stable`: outside `Rename` the durable edit behind CURRENT
  stays what it is.
* `UtilityProofs`. `RandomComputesModulo`: the shift, the mask and one subtraction
  are the remainder, for every modulus of the assumed form; no seed leads to 0 or M.
  `KeysAlwaysSeparate`, for every comparator that satisfies comparator.h and any
  number of calls.
  `EditsRoundTrip` and `OnlyWholeEdits` are about every edit without compact
  pointers, not only those of the run: any numbers, names and keys, any number of
  files, any base and any widths.
  Each decoder has one lemma of the same form: of an input that begins with what
  the encoder wrote, or would if more of the record were there (`Begins`), it
  returns the value and leaves the rest, or fails and something is missing
  (`Outcome`). `VarintExact` starts from the shape of a varint's bytes (`Word`: all
  but the last have the top bit), so that no cut of one is one. `ReadsField`
  composes them for the fields of an edit, and `EncodingGrows` says that the
  encoding of the first k fields (`Part`) is that of k - 1 and one field more. The
  invariant (`EditInv`) then says that what has been read is exactly such a
  beginning, and that an error means that something is missing. The functions are
  defined by recursion; `Recursion` shows that they exist, and what an induction
  would show is shown by a smallest counterexample (`LeastNumber`).
  `AllDataExact` is about every sequence of bytes, every checksum that is extended
  and every alignment, `ChecksumsAreExact` about those of the run, which are among
  them; both for every polynomial and every width of a byte. To carry a word
  over n bits of zeros is linear (`CarriedLinear`), composes (`CarriedTwice`), and
  is a shift as long as no bit falls off (`CarriedHigh`). So the table may divide the
  low byte alone while the others move (`StepWCarries`, `Step1Carries`), and a lane
  may be carried over a whole stride byte by byte (`Step4Carries`), because a word is
  the exclusive or of its bytes (`WordOfBytes`). What the four lanes amount to is
  `Nested`, linear in them: a stride (`StrideKeeps`) and a single word (`WordKeeps`)
  take it where the bytes they read would take the remainder, which is the invariant
  (`CrcInv`). `ExtendedComposes`: extending by two pieces is extending by their
  concatenation. `UnmaskUndoesMask`, for every word, rests on `Bits` and `Number`
  being inverse (`BitsOfNumber`, `NumberOfBits`). That the tables in the source are
  those of the polynomial is not proved: they are constants of the model.
* `LogProofs`. `IInv`: the block offset never exceeds the block and each fragment
  leaves room for its header; `FragmentsAlwaysFit` is the writer's assertions. The
  writer counts bytes, the reader block boundaries and lengths; that they agree
  (`ReaderIsAligned`) needs `FileInv`, which survives failed writes and the cut of a
  crash: every block begins with a fragment, each fragment is followed by the next
  or by less than a header's room, the last ends where the file does or behind it,
  and its bytes are in the file as far as the file goes. A record that passes the
  checksum has its true length, so that the reader is left at one of those places;
  after any other the rest of its block is dropped. `ReaderReturnsWritten` adds that
  what was returned lies before the reader's place. Any number of bytes may be damaged.
  What the reader misses is a third invariant (`Complete`, `CompleteInvariant`): the
  records of the file are in order, those synced are among them (`SyncedRecords`), and
  behind the reader's place it has missed only records in fragments, damaged ones and
  those in the block of the damage (`NoneMissed`); at the end of the file nothing is
  left (`AtFileEnd`), and without damage nothing is reported (`Quiet`).
  `DamageStaysLocal`, `DurableIsReturned` and `NoAlarmWithoutDamage` follow.
* `WritableFileProofs`. The bytes of the file and those still to be written
  (`Stream`) are looked at as one sequence; each step keeps it, adds to its end or
  drops an end of it. So it is always in order and without doubles, and is all that
  was appended until a call fails: `BufferIsExact`. `SyncsAreDurable` needs in
  addition what each place of `sync` has done so far.
* `RandomAccessProofs`. The counter is the limit, less one for each thread that
  has a slot, less one for each that is between the two steps of a failing
  acquire (`SlotsAreExact`). To be inductive, and to give `LimitsHold` and
  `NoLeak`, `IInv` also ties each thread's place to its file, its descriptors and
  its mappings (`Coupled`), and says that the owners never exceed the limit
  (`SlotsBounded`). One lemma per action; all of them reduce to what a step does
  to the two sets of threads the counter accounts for. Assumed: finitely many
  threads, limits that are natural numbers.

Only model-checked. What is stated under fairness (`CapacityRestored`, `CallsEnd`,
`SearchesEnd`, `ReadingEnds`, `OpenReturns`): liveness and `ENABLED` are out of the
provers' reach. Every invariant and every action property of a passing run is proved.

## 6. Plan

Done: the cache shard and its hash table, the skip list and the arena it lives
in, the log, opening a database with its file names and version lists, writable
and random-access files, version edits, write batches, internal keys, checksums,
random numbers.

Next, in this order:

1. The memory table's `add` and `get`, `db_impl::Write` and the replay of logs, when
   they are written: `DbOpen` then gets logs with records, and `DbState` a content.
2. The background work, when it is: see below.

### Not modelled

* Background work (db_impl.cc:400-493). `MaybeScheduleCompaction` reads
  `background_compaction_scheduled_`, `imm_` and `manual_compaction_`, which no
  constructor sets, so that its first call has no defined outcome; what its
  branches call (`compact_mem_table`, `pick_compaction`, `do_compaction_work`) has no
  definition. `finalize` skips level 0 and no version has files, so that nothing
  ever needs a compaction. A model would have to be invented.
* `sharded_lru_cache`: it hands each call to the shard of the key's hash. Its
  `total_charge` and `prune` visit the shards one at a time, so that their result
  belongs to no single moment; nothing calls them.
* A log reader with an initial offset above 0 (no caller), `RecoverLogFile` beyond
  its lock, `set_sequence` (no caller), `set_compact_pointer` (called at
  version_set.cc:446, but never with anything: no `compact_pointer_` is filled).
* `bytewise_comparator`, `internal_filter_policy`, `sanitize_options` and most of
  `posix_env`: empty bodies. `table_cache`: one call of `cache::erase`.
* `contains` of the skip list (a seek and a comparison), `hash` (any function to
  `HandleTable`), logging, status, slice, options and the mutex wrappers: values and
  forwarding without behaviour of their own.
* The destructors of `arena` and `db_impl`: nothing runs beside the first, the
  second is empty.
* What the repository declares and never defines.
