------------------------------- MODULE MCLibrary -------------------------------
(***************************************************************************)
(* The parts around a kernel, for TLC: what it asks of the system, the     *)
(* containers, JSON, the graph and MPI.  They do not share state, so a     *)
(* behaviour is one of one of them, chosen initially; the variables of the *)
(* others keep one initial value.                                          *)
(***************************************************************************)
EXTENDS Integers, Sequences

CONSTANTS
    Parts,    \* the parts to choose from
    None

VARIABLES
    part,
    size, anonymous, workers, block_no_count, num_successes,
    synced, released, result,                                      \* ParallelSync
    object_size, marked, used,                                     \* SlotPages
    page, held, fds, given, lost,                                  \* VmRegion
    way, threads, next, done, copied, fd, target, job, cut, foreign,   \* FileCopy
    m_unique, m_map, m_max_id_probe_distance, gap, near,           \* StringKeyStore
    m_banked_map, m_num_items, mutex, call, made,                  \* ConcurrentMap
    root,                                                          \* JsonValue
    pair, block, want,                                             \* KeyValuePair
    m_value_storage, m_index_table,                                \* IndexedObject
    m_vertex_id_table, m_vertex_storage, m_adj_list, m_edge_storage,
    m_max_vid_distance, asked,                                     \* JGraph
    layout, place, script, rank, shm, sent, answer, uneven, runs   \* MpiAdaptor

syncVars == <<size, anonymous, workers, block_no_count, num_successes, synced, released, result>>
slotVars == <<object_size, marked, used>>
regionVars == <<page, held, fds, given, lost>>
copyVars == <<way, threads, next, done, copied, fd, target, job, cut, foreign>>
keyVars == <<m_unique, m_map, m_max_id_probe_distance, gap, near>>
mapVars == <<m_banked_map, m_num_items, mutex, call, made>>
pairVars == <<pair, block, want>>
indexVars == <<m_value_storage, m_index_table>>
graphVars == <<m_vertex_id_table, m_vertex_storage, m_adj_list, m_edge_storage,
               m_max_vid_distance, asked>>
mpiVars == <<layout, place, script, rank, shm, sent, answer, uneven, runs>>

systemVars == <<syncVars, slotVars, regionVars, copyVars>>
containerVars == <<keyVars, mapVars, root, pairVars, indexVars, graphVars>>

-----------------------------------------------------------------------------
Y == INSTANCE ParallelSync WITH
        MaxBlocks <- 3, Cpus <- 2, threads <- workers, saved <- synced

\* Slots smaller than two pages, two pages and more, most of them not aligned.
P == INSTANCE SlotPages WITH
        PageSize <- 4, ChunkSize <- 64, ObjectSizes <- {6, 8, 10, 14}, SizeHint <- 8

V == INSTANCE VmRegion WITH
        PageSize <- 2, Low <- 10, High <- 18, Alignments <- {1, 2, 4}, Lengths <- {2, 4},
        Fds <- {1}

\* A file with holes at both ends and one without.
F == INSTANCE FileCopy WITH
        Source <- <<<<0, 1, 2, 0>>, <<3>>>>, Threads <- {1, 2}, Fds <- 1 .. 4,
        table <- fd, result <- copied

\* Two keys with one hash, next to a third: all IDs that 2 bits give.
K == INSTANCE StringKeyStore WITH
        Hash <- <<2, 2, 3>>, Values <- {0, 1}, DefaultValue <- 0, IdBits <- 2, MaxItems <- 3

\* Two keys in one bank, one in another.
M == INSTANCE ConcurrentMap WITH
        Threads <- {1, 2}, BankOf <- <<1, 1, 2>>, NumBanks <- 3, MaxEdits <- 1

J == INSTANCE JsonValue WITH
        Roots <- {1, 2}, Allocators <- {"m", "n"}, Numbers <- {0, 1}, Strings <- {"a", "ab"},
        CStr <- [a |-> "a", ab |-> "a"], MaxInt <- 0, MaxNodes <- 4

\* Keys of length 0, 1 (kept in the pair), 2 and 2 (in a block).
Q == INSTANCE KeyValuePair WITH
        Slots <- {1, 2}, Allocators <- {"m", "n"}, Length <- <<0, 1, 2, 2>>, ShortMax <- 1,
        Blocks <- 1 .. 4, MixedSwap <- FALSE

X == INSTANCE IndexedObject WITH Hash <- <<1, 1, 1, 2>>

G == INSTANCE JGraph WITH Hash <- <<2, 2, 0>>, IdBits <- 2, MaxEdges <- 2

\* Two ranks on one node and on two; a store of another number of ranks.
R == INSTANCE MpiAdaptor WITH
        Size <- 2, Layouts <- {<<1, 1>>, <<1, 2>>}, Foreign <- 3, MaxCalls <- 2, MaxRuns <- 2,
        root <- place, job <- rank

-----------------------------------------------------------------------------
Init ==
    /\ part \in Parts
    /\ Y!Init /\ P!Init /\ V!Init /\ F!Init
    /\ K!Init /\ M!Init /\ J!Init /\ Q!Init /\ X!Init /\ G!Init
    /\ R!Init
    /\ part # "sync" => size = 1 /\ anonymous = {}
    /\ part # "slots" => object_size = 6
    /\ part # "copy" => way = "clone"
    /\ part # "keys" => m_unique
    /\ part # "json" => root[1].m_allocator = "m" /\ root[2].m_allocator = "m"
    /\ part # "mpi" => layout = <<1, 1>> /\ place["p"][1] = None

NextSync ==
    /\ part = "sync" /\ Y!Next
    /\ UNCHANGED <<part, slotVars, regionVars, copyVars, containerVars, mpiVars>>
NextSlots ==
    /\ part = "slots" /\ P!Next
    /\ UNCHANGED <<part, syncVars, regionVars, copyVars, containerVars, mpiVars>>
NextRegions ==
    /\ part = "regions" /\ V!Next
    /\ UNCHANGED <<part, syncVars, slotVars, copyVars, containerVars, mpiVars>>
NextCopy ==
    /\ part = "copy" /\ F!Next
    /\ UNCHANGED <<part, syncVars, slotVars, regionVars, containerVars, mpiVars>>
NextKeys ==
    /\ part = "keys" /\ K!Next
    /\ UNCHANGED <<part, systemVars, mapVars, root, pairVars, indexVars, graphVars, mpiVars>>
NextMap ==
    /\ part = "map" /\ M!Next
    /\ UNCHANGED <<part, systemVars, keyVars, root, pairVars, indexVars, graphVars, mpiVars>>
NextJson ==
    /\ part = "json" /\ J!Next
    /\ UNCHANGED <<part, systemVars, keyVars, mapVars, pairVars, indexVars, graphVars, mpiVars>>
NextPair ==
    /\ part = "pair" /\ Q!Next
    /\ UNCHANGED <<part, systemVars, keyVars, mapVars, root, indexVars, graphVars, mpiVars>>
NextIndex ==
    /\ part = "index" /\ X!Next
    /\ UNCHANGED <<part, systemVars, keyVars, mapVars, root, pairVars, graphVars, mpiVars>>
NextGraph ==
    /\ part = "graph" /\ G!Next
    /\ UNCHANGED <<part, systemVars, keyVars, mapVars, root, pairVars, indexVars, mpiVars>>
NextMpi ==
    /\ part = "mpi" /\ R!Next
    /\ UNCHANGED <<part, systemVars, containerVars>>

Next ==
    \/ NextSync \/ NextSlots \/ NextRegions \/ NextCopy
    \/ NextKeys \/ NextMap \/ NextJson \/ NextPair \/ NextIndex \/ NextGraph
    \/ NextMpi

Spec == Init /\ [][Next]_<<part, systemVars, containerVars, mpiVars>>

-----------------------------------------------------------------------------
\* Work that threads take from a shared counter is all done, once each, when
\* the call answers true: blocks to synchronise (priv_parallel_msync) and files
\* to copy (copy_files_in_directory_in_parallel).
SharedWorkDone == /\ part = "sync" => Y!SyncedMeansSaved
                  /\ part = "copy" => F!CopiedWhole
\* Address space and pages are neither lost nor given up while in use: regions
\* that reserve_aligned_vm_region trims, and pages of the slots of a chunk that
\* are deallocated one by one (priv_free_slot).
PagesExact == /\ part = "regions" => V!RegionsExact
              /\ part = "slots" => P!PagesFollowSlots
\* Every key of a store is found, as long as no erase left a hole in a probe
\* sequence (string_key_store priv_find_internal_id, erase).
KeysFoundUnlessGap == part = "keys" => K!KeysFoundUnlessGap
\* "Counts the number of items associated with the key", "Removes all elements
\* with the key equivalent to key" (string_key_store count, erase): also after an
\* erase of another key, in a store that was not made from another one.
KeysFoundAfterErase == part = "keys" => K!KeysFoundAfterErase
\* No insertion and no edit of a value is lost, and iteration and find reach
\* every key once (concurrent_map insert, edit, scoped_edit).
EditsKept == part = "map" => M!EditsKept
\* The values below a JSON value use its allocator, whatever was assigned or
\* moved into it; equality and the conversions agree on what a value is.
ValuesExact == part = "json" => J!OneAllocator /\ J!ComparedAndConverted
\* The pairs of a JSON object own the blocks of their keys (key_value_pair) and
\* are found under their keys (indexed_object).
PairsExact == /\ part = "pair" => Q!KeysOwned
              /\ part = "index" => X!PairsLocated
\* The tables of the graph agree on its vertices and edges (jgraph).
GraphExact == part = "graph" => G!GraphExact
\* The ranks meet in the same collectives and come out with the same answers,
\* unless a call began with the directory on some nodes only
\* (metall_mpi_adaptor).
RanksAgree == part = "mpi" => R!RanksAgree
\* A store of another number of ranks is never removed or changed (mpi create,
\* remove, copy).
OthersKept == R!OthersKept
=============================================================================
