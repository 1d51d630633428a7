# TLA+ model of Metall

Metall is a memory allocator whose heap lives in memory-mapped files, so that
the objects of one run are still there in the next. This directory models the
parts of it whose correctness depends on orders of events that tests hardly
reach: threads interleaving inside the allocator and around the manager, calls
that fail or crash half way, files that are written in one run and read in the
next, and bookkeeping that has to stay consistent over long sequences of calls.

Everything is translated from the code under `src/include/metall` (and
`src/src` for the C interface). The model is of the default build: `NDEBUG` is
set (CMakeLists.txt selects Release), so an `assert` is a statement to be
checked, not a guard, and the mutexes are compiled in. Two modules model
optional builds and say so (`SlotPages`, the anonymous maps of `ParallelSync`).

Contents: 1 the system, 2 the modules, 3 the runs, 4 the refinements, 5 the
proofs, 6 what is only model-checked, 7 what the violation runs show,
8 observations, 9 what is not modelled.

## 1. The system and its parts

| Part | Code | Modules |
|---|---|---|
| chunk directory | `kernel/chunk_directory.hpp` | `ChunkDirectory`; its file in `AllocatorFiles` |
| non-full chunk bins | `kernel/bin_directory.hpp` | in `SegmentAllocator`, `AllocatorFiles` |
| segment allocator | `kernel/segment_allocator.hpp` | `SegmentAllocator`, `AllocatorFiles`, `SlotPages` |
| object cache | `kernel/object_cache.hpp` | `ObjectCache`, promise: `ObjectPool` |
| segment storage | `kernel/segment_storage.hpp` | `SegmentStorage`, `ParallelSync` |
| bitsets | `kernel/multilayer_bitset.hpp`, `detail/bitset.hpp` | `MultilayerBitset`, `Bitset` |
| sizes and bins | `kernel/object_size_manager.hpp`, `bin_number_manager.hpp` | `SizeClasses` |
| data store life | `kernel/manager_kernel*.{hpp,ipp}`, `kernel/storage.hpp` | `DataStore` |
| construct, find, destroy | `kernel/manager_kernel_impl.ipp` | `NamedObjects` |
| object directory, accessors | `kernel/attributed_object_directory.hpp`, `object_attribute_accessor.hpp` | `ObjectDirectory`, promise: `ObjectEntries` |
| manager, STL allocators | `basic_manager.hpp`, `stl_allocator.hpp`, ... | `Manager` |
| C interface | `c_api/`, `metall_c.cpp` | `CApi` |
| files and maps | `detail/file.hpp`, `file_clone.hpp`, `mmap.hpp` | `FileCopy`, `VmRegion` |
| containers | `container/concurrent_map.hpp`, `string_key_store.hpp` | `ConcurrentMap`, `StringKeyStore` |
| JSON and graph | `json/*`, `container/experimental/*` | `JsonValue`, `KeyValuePair`, `IndexedObject`, `JGraph` |
| MPI adaptor | `utility/metall_mpi_adaptor.hpp`, `mpi.hpp` | `MpiAdaptor` |

How they interact. An allocation of a small object goes to the object cache of
the calling CPU; an empty cache asks the segment allocator for a batch of
objects of one bin, a full cache gives its oldest block back. The segment
allocator takes the bin's mutex, marks slots in the chunk at the front of the
bin's list and takes the chunk mutex only when it needs a new chunk; the new
chunk comes from the chunk directory and may need the segment to be extended.
Freeing runs the other way: slot, then chunk, then pages and file space. The
manager kernel adds names to objects and moves the management data between
memory and the files of the data store when it is opened, closed or
snapshotted. A manager owns a kernel; allocators inside containers reach the
kernel through the segment, not through the manager.

What makes it hard, and what has to hold:

* A chunk that becomes empty leaves the directory under the chunk mutex and its
  bin's list afterwards, so its number can belong to somebody else while an old
  list still holds it. Objects must not overlap, and lists must be exact again
  when the bin's mutex is released.
* Pages are given back while other threads look for chunks. No page of a live
  object may be given back.
* `erase` of a large object is not told how long the object is.
* Extension of the segment, `malloc` for a slot bitset and the search for a
  chunk can each fail after part of the work is done.
* Counter and bitset, `size()` and table, list and two hash tables, cache
  blocks in two linked lists are updated separately and must agree, also after
  they went through a file.
* A data store may be used only if it was closed properly; the mark that says
  so is a file written and removed separately from the data, and any step in
  between may fail or be the last one of its process.
* Constructors and destructors run outside the mutex of the directories and may
  throw.

`PROJECT.json` lists every part under "components", every place where a hazard
bites under "hazards", and for every definition the lines it models under "map".

## 2. Modules

State variables have the names of the members they stand for where there is
one. An action is a whole handler, or, where other threads or a crash can come
in between, the part of a handler from one such point to the next; `pc`, `op` or
`step` says where a call stands.

**ChunkDirectory.** `m_table` and `m_last_used_chunk_no`. An entry is a record
with the fields of `entry_type`; the slot bitset is the set of its set bits (that
the bitset is such a set is `MultilayerBitset`). `InsertSmall`,
`InsertSmallNoMemory` and `InsertLarge` are the two private insertions with their
error returns, `Erase`, `MarkSlots` and `unmark_slot` the other calls. Object
sizes appear as `NumSlots` and `NumChunks`, both arbitrary. `DirectorySpec` is
the class by itself under every sequence of calls its asserts allow.

**SegmentAllocator** extends it with bins, mapped size, mutexes and threads.
Handlers are split where a mutex is taken or released. A call for `n` objects is
what the object cache asks for, a call for one object is for bins that are not
cached. `live` is what clients (or the cache) hold. `ExtendFails` has both
failures of `segment_storage::extend`: beyond the capacity nothing happens; a
block file that cannot be created or mapped unmaps the whole segment and marks
the storage broken. When no chunk is found for a large object the cleanup calls
`erase` with the error value, one past the table: the model lets it find an
unused entry or end the process (`aborted`).

**AllocatorFiles** adds `serialize` and `deserialize` of bins and chunk directory:
the store is closed with objects in it and opened again. The files are lines, as
the code writes them: the slot count and the bitset are in the line of a small
chunk only, unused chunks have no line.

**ObjectCache** has the blocks of each cache with their previous and next
pointers in two lists, the free list, the entries of every block in their order
(null ones where a batch was short) and the size count; the allocator below is
the set of its free objects, which may answer a batch only in part. The walks of
`clear()` and of the iterator follow the pointers (`Walk`).

**SegmentStorage** is one storage object on a directory of block files with every
file and mapping call failing: what `create`, `open` and `extend` do to the object
is one operator per step of theirs (`Prepared`, `InUse`, `priv_create_new_map`,
`Counted`, `Listed`), and `open` reserves one capacity, whatever the store was
created with, as the kernel does; **ParallelSync** is `priv_parallel_msync`;
**VmRegion** the address space under `detail/mmap.hpp`; **FileCopy** copying and
cloning by several threads with descriptors as numbers of one table;
**SlotPages** the pages given back with the size hint.

**DataStore.** A store is a record of the files that matter (root, management
directory, mark, UUID, version, description, and the content of segment and of
each management file as an epoch, the number of the change it reflects). A kernel
runs the file operations of a call one `step` at a time; `Crash` may end its
process between two steps or in the middle of a write, and a step in
`FaultySteps` may fail (`Fault`). `saved` is what the last close, snapshot or copy
meant to leave: it is the specification, no code reads it. What the API leaves
undefined (two calls that change one store at once, copying a store that is being
written, opening for writing what others have open) is excluded by the guards
`Quiet`, `NotCopied`, `NotRead` and `Unused`.

**NamedObjects.** The three directories as sets of entries, memory as blocks that
are free, raw or built. A critical section is one step; constructors and
destructors run between sections and may throw.

**ObjectDirectory.** List, offset index and name index over list nodes, which are
memory: an index could refer to a node that is gone. The file is a sequence of
entries. `damaged` marks a directory whose `insert` threw after the node was in
the list.

**NamedObjects**, **Manager** (kernel ownership, moves, sanity check, reaction to
exceptions, and the allocators a manager hands out) and **CApi** are what programs
call; they share the constants of **Program**. **CApi**, **ConcurrentMap**,
**StringKeyStore**, **JsonValue**, **KeyValuePair**, **IndexedObject**, **JGraph**
and **MpiAdaptor** are described at their heads.

**Bitset, MultilayerBitset, SizeClasses** are algorithms: the bit tables on blocks
of a small width, against sets of bits; the size table, the bins and the integer
helpers against their definitions, for every request up to a bound.

## 3. Runs

| Run | Instance | Question |
|---|---|---|
| `allocator` | 2 threads, 2 small bins of 2 slots, large objects of 2 chunks, 3 table entries, blocks of 1 chunk, capacity 2, batches of 1 and 2 | do objects stay apart, accounted for and inside the mapping, lists exact, freed pages unused, also across closing and opening? |
| `allocator_liveness` | 2 threads, 1 small bin, objects of 2 chunks, blocks of 2 chunks | does every call return? |
| `object_cache` | one cache with 2 bins, 3 blocks, 4 objects; two caches with 1 bin, 2 blocks each, 3 objects, over one allocator | do the lists stay intact, is no object lost or in two places, does every call return? |
| `data_store` | 1 kernel on 2 paths for 2 epochs; 2 kernels on 2 paths for 1 epoch; 2 kernels on one store of another version for 3 epochs | is a mark only on complete files, does an open find what was saved, is a snapshot a store of its own? |
| `structures` | object directory: 2 directories, 1 name, 2 offsets, 2 descriptions, 2 nodes; chunk directory: 4 chunks, a bin of 3 slots, large objects of 1 to 3 chunks; storage: block size 2, capacities and requests below, at and above one to four blocks; multilayer bitsets of 7, 8 and 3 bits on blocks of 2 and 4; bit tables of width 2 up to 7 bits; requests up to 5000 bytes with chunks of 2048 | is each structure exact after every sequence of calls? |
| `objects` | 2 threads, 1 name, 2 types, 3 blocks; 2 managers, 3 kernels, 2 threads; 2 allocators, 2 blocks; 1 caller of the C interface, 2 paths, 3 handles | do directories agree, is memory owned once, do kernels live as long as they are used? |
| `library` | see `MCLibrary.tla`: 2 or 3 threads, files, banks, keys, values or ranks each | does each part around a kernel do what it says? |
| `unlisted_chunk`, `close_ignores_failure`, `found_before_built`, `throws_among_others`, `erase_hides_keys` | small | *violations*, section 7 |

`structures`, `objects` and `library` check components that share no state: a
behaviour of such a run is one of one component, chosen initially (`part`).

Why the bounds are enough. Four chunks hold a large object next to another one
with a small chunk before, between or after them: the cases that `erase` and the
search for a run distinguish. Two slots per chunk give empty, partly filled and
full chunks. Two bins let a freed chunk change its bin while the old list still
holds it; a large object can take it as well. The table has one entry more than
the capacity, so that both a full table and a refused extension happen. Batches
of one and two take the single and the many path (`ManyThreshold` is 2 in the
instances, 4 in the code). Three blocks of a cache give a first, a middle and a
last one in each list. In `data_store` one kernel with two epochs has something
newer to lose, two kernels on two paths cover copy and snapshot against
everything else, and three epochs on one path cover taking turns; crashes and
failures may happen at every step, any number of times. Two nodes and two offsets
let a list node be reused by another directory. Symmetry is used where only
safety is checked, over sets whose members the actions do not tell apart
(threads, paths and kernels, directories, offsets and nodes).

Fairness. `SegmentAllocator!FairSpec` assumes that a thread inside the allocator
goes on (weak fairness of `Continue(t)`), `MCSpec` of `MCObjectCache` the same for
a call inside one of two caches (`Step(c)`): threads are scheduled by the operating system
and hold no lock outside. Nothing makes a client call. `CallsReturn` of the
allocator asks for returns once calls stop: a waiting thread is disabled only
while the owner of the mutex runs, so fairness of the mutexes themselves is not
needed. Calls of a cache loop over the allocator until they have what they need
or the allocator has nothing.

Every property has a mutant, an operator next to the definition it replaces that
a plausible mistake in the code would amount to, and that breaks the property.

## 4. Refinements

* `ObjectPool` is what the caches promise: every object is free in the chunks,
  cached, or held by a client, and moves between these one by one.
  `ImplementsPool` shows it of lists and blocks (proved). The objects a cache has
  are the entries of the blocks it uses; an object that is being pushed still
  counts as its client's.
* `ObjectEntries` is what an object directory promises: a set of entries, no two
  with the same offset or name; a call adds, removes or describes one; a write
  puts the whole set into the file and a load brings the whole set back.
  `ImplementsEntries` shows it of list, tables and file (proved). The refinement
  mapping takes the entries in the nodes of the list (`Held`) and the entries of
  the file (`WrittenSet`); it promises nothing of a directory in which an
  `insert` threw.
* `UsesDirectory` says that the steps of the allocator's threads are calls that
  `DirectorySpec` allows, so what holds of the directory for one caller holds
  inside the allocator (proved).

## 5. Proofs

All theorems hold for every value of the constants: any number of threads,
chunks, bins, blocks, stores, kernels, names and nodes. The assumptions on
constants are named in the module that declares them: `BinAssumption` (some small
bin exists, small and large bins differ, a small chunk has at least two slots, as
the code asserts, a large object at least one chunk), `SizeAssumption`,
`ThreadAssumption` (`NoThread` is no thread), `BatchAssumption`,
`CapacityAssumption` (a whole number of blocks), `StorageAssumption` (block size
and capacities are not zero), `SetupAssumption`,
`PathAssumption`, `NoneAssumption`, `LengthAssumption`, `NameAssumption`,
`NodeAssumption`, `FileAssumption` and `OwnerAssumption` (markers such as `None`
are none of the things they stand beside), and `CacheAssumption` (a batch fits a
block and a cache, which `comp_chunk_size` and `comp_max_bin_no` see to, and a
cache has a block). Each inductive invariant was model-checked before it
was proved.

### The chunk directory (`ChunkDirectoryProofs`)

`DirectoryInvariant`, and from it `CounterIsExact`, `SizeIsRight`,
`LargeObjectsIntact` and the action property `ErasesOneObject`.

`CountExact`, `SizeCoversUse` and `LargeRuns` are not inductive one by one: an
entry that is reused must have no slots left over (`OnlySmallMarked`), and
insertion treats everything past the last used chunk as free, so there must be
no large chunk there. The heart is `ErasedRunIsExtent`: the loop of `erase` stops
exactly at the end of its object. If it went on, the next body chunk would belong
to a head (second half of `LargeRuns`); that head cannot be the erased one (its
object has ended), cannot lie before it (its extent would make the erased head a
body), and cannot lie after it (the erased object's body would contain a head).

### The allocator (`SegmentAllocatorSteps`, `SegmentAllocatorChunks`, `SegmentAllocatorProofs`)

`AllocatorInvariant`, and from it `ObjectsNeverOverlap`, `NothingLost`,
`ListsAreExact`, `FreedPagesHoldNothing`; `ObjectsInsideSegment` by induction
together with `ListedInside` (a listed chunk was once covered by an extension);
`DirectoryUsedRight`.

`NoOverlap` by itself says nothing about a thread in the middle of a call, so
`AllocatorInv` says for every place a thread can stand at what it holds: `LocksOK`
ties mutexes to places, `ObjsOK` says that the objects of a call belong to nobody
else, `ChunkOK` describes the chunk at hand (registered and empty before it is
listed, empty before it is erased, unused while its pages are given back,
somebody else's or unused before it leaves the list), and `ListsOK` says that a
list differs from the partly filled chunks of its bin only by the chunk that the
holder of the bin's mutex has at hand. `SlotsAccounted` is part of the induction
because freeing trusts the objects it is given.

`SegmentAllocatorSteps` says once what each kind of step does to the directory
(`Takes`, `Frees`, `Erases`) and that it is a step the directory allows.
`SegmentAllocatorChunks` shows that locks, objects, accounts and the chunks at
hand are kept; the delicate case is a thread between erasing a chunk and
unlisting it while another one takes the chunk, where the two bins' mutexes and
the chunk mutex together leave no other interference (`EntryStep`: an entry
changes only by a step of the thread that holds the mutex of its bin, or from
unused). The first part of `SegmentAllocatorProofs` adds the lists and draws the conclusions.

### The allocator across closing and opening (`SegmentAllocatorProofs`, second part)

`FilesInvariant`, and from it `ReopenedIsIntact` (an allocator that was just
loaded satisfies the whole of `AllocatorInv` for the objects kept in the segment)
and, for behaviours with any number of reopens, `NoOverlapAcrossReopen`,
`NothingLostAcrossReopen`, `InsideAcrossReopen`, `ListsExactAcrossReopen` and
`FreedPagesAcrossReopen`.

`FilesInv` adds to the allocator's invariant that no thread is inside a closed
allocator and that the files are what it wrote. The argument is that the files
lose nothing that matters: the line of a large chunk has neither count nor
bitset, which are zero by the directory's invariant; a chunk without a line is
unused, and `m_last_used_chunk_no` is the largest number in a line because
`SizeCoversUse` says that the last one is in use; the lists are equal element by
element. A loaded table thus equals the one that was written in all the invariant
speaks of.

### The life of data stores (`DataStoreProofs`)

`StoreInvariant`, and from it `MarkIsTrusted`, `WritersUnmark`, `ReadersSeeSaved`
and the action properties `OpenedIsSaved` and `SnapshotsAreOthers`, under crashes
at every point and failures of every step the code checks. The theorems have one
hypothesis, `FaultySteps \cap LostFailures = {}`: the steps of
`priv_serialize_management_data`, `sync` and the copying of the segment are
assumed not to fail, because `close()`, `snapshot()` and `copy()` mark the store
whatever these answer. Run `close_ignores_failure` shows that without it `MarkIsTrusted` is
false; it is a property of the code and not of the proof.

`StoreInv` has three layers. `Apart` relates any two kernels: their targets
differ, nobody reads or copies a store that is being made, removed or opened for
writing. It follows from what clients may do and not from any lock: Metall has
none between processes. `StoreOK` relates mark and data of a store: a marked
store has what was saved, or has lost its segment to a removal that was
interrupted (the segment goes before the mark does). `KernelOK` says how far a
call has come: which management files already equal memory (`WrittenBefore`),
that a store being opened still has what was saved, what a snapshot or a copy
holds so far, and that the UUID of a snapshot about to be marked is its own.

A step of one kernel disturbs nothing another one relies on: `StepKeeps` reduces
this to the fact that a step changes one store only, which `NotUsed` shows to be
none that another kernel uses. So each action has to be shown to keep only its own
kernel's and its own store's part. A crash empties the kernel and is covered
because `StoreOK` never mentions kernels; a write that is cut off leaves a value
that is neither old nor new, in a store that is not marked.

### Construction and destruction (`ProgramProofs`)

`ObjectsInvariant`, and from it `DirectoriesAgree` and `MemoryHasOneOwner`. The
invariant divides memory: a block is free, in one entry of one directory, with
one thread that constructs it (entered, raw) or destructs or frees it (no longer
entered), or abandoned by a destructor that threw. It is needed in this form
because a constructor runs without the mutex on a block every other thread can
find and destroy by its name: `CallOK` records what the entry and the memory look
like at each place of a call.

### Managers, allocators and the C interface (`ProgramProofs`)

`OneManagerPerKernelAlways`, `KernelsKeptAlways`, `FreedWhereAllocatedAlways` and
`WriterAloneAlways`, for any number of managers, kernels, threads, allocators,
blocks, stores and handles.

* A kernel is alive exactly while one manager owns it (`ManagerInv`), with
  exceptions at every point. That no thread is in a kernel that was deleted
  (`InsideInv`: a call is in the kernel its manager owns, and that one is good)
  needs the hypothesis `~ThrowsAmongOthers`: no function throws while another
  call is in the same manager. Run `throws_among_others` shows that it is needed.
* Memory of containers (`BlocksInv`): an allocator is rebound only while nothing
  is held through it, and blocks change hands only between allocators that
  compare equal, so the kernel or heap that frees a block is the one it came
  from.
* `WriterAloneAlways` has the hypothesis that the interface has one caller. Two
  callers can both find the mark before either removes it: the interface checks
  and opens in separate steps and has no lock. The invariant (`CInv`) adds
  that the store of every handle exists and that a path looked at for `create`
  is still free, until a program removes a store it has open.

### The object cache (`ObjectCacheProofs`)

`CachesSoundAlways`, and from it `CachesExact`, `DeallocatedMeansUnusedAlways` and
the refinement `CachesImplementPool`.

`CacheExact` speaks of walks along pointers, which no step preserves in an obvious
way. The invariant states what the pointers say with an order instead: for every
cache there are a set of blocks in use, a set of free ones and a relation "older
than" that orders them, and every pointer leads to the neighbour in that order,
in the list by age among all blocks in use and in the list of a bin among the
blocks of the bin (`Linked`). Taking a block out removes it from the set and leaves
the order alone; a new block becomes the greatest one. Only the active block of a
bin is not full, and it is the greatest of its bin, which is what lets eviction
know how many objects a block has. `Placed` says that an object is in one entry of
one cache, on its way into one, free or with a client.

Back to walks: `Along` says that a walk of n steps has met the n greatest blocks
in their order, each once; it is shown by induction on n, and
`Pigeonhole` (n different numbers up to n are all of them) shows that the walk
ends with all of them. The sum of bytes over the blocks is compared the same way. The
induction rests on `LeastNumber`: a set of numbers that is not empty has a least
element, from the theorem that < is well-founded.

`all_memory_deallocated` answers true when every marked slot was met by the
iterator; what the iterator meets is an entry of a block in use, and `Placed` says
that such an object is no client's. The pool's steps come out of the same case
analysis: `Goes` is the invariant after the step together with the step of the
pool it amounts to.

### The object directory (`StructureProofs`, first part)

`IndexesInvariant`, and from it `TablesMatchList`, `SerializedLoads` and the
refinement `DirectoryImplementsSet`. `IndexesInv` separates what survives a
throwing `insert` (`IndexesSound`: an index leads to a node of its own list with
that key) from what does not (`IndexesComplete`: it leads to every node). Lists
share no nodes (`NodesApart`), which makes the erasure of an entry harmless to
other directories. For the refinement, completeness makes the entries in a list
pairwise distinct, so removing a node removes exactly one entry from the set; the
nodes that `deserialize` takes are new and carry the sequence of the file, so the
set loaded is the set written.

### The segment and its files (`StructureProofs`, second part)

`StorageInvariant`, and from it `OpenIsMappedAlways` and the action property
`ReleasedCanAlwaysBeOpened`, for any block size, capacities and requests, with a
failure of any file or mapping call. The theorems have one hypothesis, that no
capacity given to `create` exceeds the one that `open` reserves: `open` maps every
block file it finds, and only an assert compares the end of a block with the
reservation.

`OpenIsMapped` is not inductive: `open` finds the files that an earlier object
left, so `StorageInv` bounds their number by the blocks that the capacity of `open`
rounds up to (`MostBlocks`), says that an open segment has all the files there are
and a capacity of whole blocks, and that an object which `create` or `open` may
begin with has no blocks, size or descriptors. The arithmetic is in three lemmas:
rounding up gives whole blocks (`RoundedUp`, `RoundedWhole`), and a request within
a capacity of whole blocks needs no more blocks than fit (`MissingFit`). `Whole(w, n)`
is an open segment of n blocks; `create` reaches `Whole` with one (`FirstMap`),
`open` with all files (`MapsAll`), and `extend` goes from n to n + k in its loop
(`ExtendedWhole`). Every failing call ends in `GivenUp` or `FailureEnds`: whatever
was mapped is released first, because the object still counts as open there.

## 6. Only model-checked

* Liveness (`CallsReturn`, and the second half of `SharedCaches`): needs fairness,
  which the proof system does not handle. The first half of `SharedCaches` is an
  instance of `CachesImplementPool`.
* `BitsExact` and `ValuesExact`: the definitions are recursive operators over data
  (layers, nested values), which keep their modules out of the prover's reach.
* `SizesRight`: it compares the size table with its definition for one table; there
  is no invariant to find.
* The properties of `library`: no proof has been written.

## 7. What the violation runs show

Each is a disagreement between the code and what its documentation says; the
quoted lines are in `PROJECT.json`, "findings".

* `unlisted_chunk`: a chunk registered before an extension fails stays in the
  directory, empty and in no bin; it is never used again.
* `close_ignores_failure`: `close()` marks a store whose management data could
  not be written, and `consistent()` then says that it is.
* `found_before_built`: `find_or_construct` can return an object whose
  constructor another thread is still running.
* `throws_among_others`: a function of the manager in which the kernel throws
  deletes the kernel while other threads are in it.
* `erase_hides_keys`: after `erase` of one key of a `string_key_store`, another
  key that had collided with it is no longer found.

## 8. Observations

Seen while modelling, outside what a run checks:

* `munmap` with `call_msync` only synchronises and never unmaps;
  `reserve_aligned_vm_region` does not check its first `mmap`.
* A store that was created with a capacity above `k_default_vm_reserve_size` and
  filled beyond it is opened with the default: `priv_open` would map block files
  past the end of the reservation, which only the assert of `priv_map_file` sees.
  The theorems on the segment exclude it by their hypothesis.
* With `METALL_USE_ANONYMOUS_NEW_MAP` a failing `priv_sync_anonymous_map`
  releases the segment while other threads synchronise it, and
  `priv_parallel_msync` may then answer true.
* A short count from `copy_file_range` is taken for success in the dense copy;
  an error path of the copy may close a descriptor number twice, which by then
  can be another thread's (`FileCopy`, `foreign`).
* The allocator-extended copies of `string_key_store` lose the longest probe
  distance. `jgraph` registers again a name whose hash is the largest ID.
* `concurrent_map::size()` may miss increments of concurrent insertions.
* Swapping a JSON pair with a short key and one with a long key exchanges the
  wrong member; assigning a value from a part of itself resets the source first;
  keys and strings are cut at a NUL where `data()` is passed on; printing an
  empty object dereferences `end()`; `get_allocator` of two object classes is
  misspelt and one allocator-extended constructor would not compile, so nothing
  instantiates them.
* `MpiAdaptor`: only rank 0 checks the number of partitions on `remove`, and with
  different roots on the ranks some return before a collective others wait in.

## 9. Not modelled

Contents of objects, addresses and file formats (abstracted), logging, random
numbers and timing, reports (profiling, soft-dirty pages), the umap and Privateer
storages (they delegate to external libraries), the move constructor of the
segment storage, pretty printing and iterator classes of the JSON containers, and
front end functions that only forward a call. The asynchronous snapshot and copy
run the steps of `DataStore` in another thread. Which cache a thread uses (its CPU
number) is a free choice.
