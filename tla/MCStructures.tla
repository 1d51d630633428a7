----------------------------- MODULE MCStructures -----------------------------
(***************************************************************************)
(* The structures a kernel is built from, for TLC.  They do not share      *)
(* state, so a behaviour is one of one of them, chosen initially; the      *)
(* variables of the others keep one initial value.                         *)
(***************************************************************************)
EXTENDS ChunkDirectory, ObjectDirectory, SegmentStorage, TLC

VARIABLES
    part,
    shape, array, count, saved,                                \* MultilayerBitset
    table, num_bit, bits,                                      \* Bitset
    nbytes                                                     \* SizeClasses

layerVars == <<shape, array, count, saved>>
bitVars == <<table, num_bit, bits>>

-----------------------------------------------------------------------------
\* ObjectDirectory and ChunkDirectory are extended: two directories of objects
\* with a name or none, two offsets and two nodes; four chunks, a bin of three
\* slots, objects of one to three chunks.  So is SegmentStorage: requests below,
\* at and above blocks of two bytes, in segments of one to four blocks.
MCNumSlots == [s3 |-> 3]
MCNumChunks == [l1 |-> 1, l2 |-> 2, l3 |-> 3]
Symmetry ==
    Permutations(Directories) \cup Permutations(Offsets) \cup Permutations(Nodes)

\* Two layers with a last block that is not full, two full layers, one block.
L == INSTANCE MultilayerBitset WITH
        Shapes <- {[block |-> 2, size |-> 7], [block |-> 4, size |-> 8], [block |-> 4, size |-> 3]},
        MaxMany <- 5

B == INSTANCE Bitset WITH Width <- 2, MaxBits <- 7, Operands <- {{0, 3, 4}, {1, 2, 3}}

\* Requests up to three chunks, past the first power-of-two bins above a chunk.
Z == INSTANCE SizeClasses WITH
        ChunkSize <- 2048, MaxObjectSize <- 8192, WordBits <- 16, BlockCapacity <- 16,
        CacheSize <- 9000, MaxRequest <- 5000, MaxGroups <- 5

-----------------------------------------------------------------------------
AllInit ==
    /\ part \in {"directory", "chunks", "storage", "layers", "bits", "sizes"}
    /\ Init /\ DirectoryInit /\ StorageInit /\ L!Init /\ B!Init /\ Z!Init
    /\ part # "storage" => st.m_system_page_size = 1 /\ ~st.m_broken
    /\ part # "layers" => shape.size = 3
    /\ part # "bits" => num_bit = 1

NextDirectory ==
    /\ part = "directory" /\ Next
    /\ UNCHANGED <<part, directoryVars, storageVars, layerVars, bitVars, nbytes>>
NextChunks ==
    /\ part = "chunks" /\ DirectoryNext
    /\ UNCHANGED <<part, vars, storageVars, layerVars, bitVars, nbytes>>
NextStorage ==
    /\ part = "storage" /\ StorageNext
    /\ UNCHANGED <<part, vars, directoryVars, layerVars, bitVars, nbytes>>
NextLayers ==
    /\ part = "layers" /\ L!Next
    /\ UNCHANGED <<part, vars, directoryVars, storageVars, bitVars, nbytes>>
NextBits ==
    /\ part = "bits" /\ B!Next
    /\ UNCHANGED <<part, vars, directoryVars, storageVars, layerVars, nbytes>>
NextSizes ==
    /\ part = "sizes" /\ Z!Next
    /\ UNCHANGED <<part, vars, directoryVars, storageVars, layerVars, bitVars>>

AllNext ==
    \/ NextDirectory \/ NextChunks \/ NextStorage \/ NextLayers \/ NextBits \/ NextSizes

AllSpec == AllInit /\ [][AllNext]_<<part, vars, directoryVars, storageVars, layerVars, bitVars,
                           nbytes>>

-----------------------------------------------------------------------------
\* Both bitsets hold the bits they should: the index layers of the one agree
\* with its leaves (find_and_set, reset), the ranges and masks of the other
\* with single bits (set_n_bits, resize).
BitsExact == /\ part = "layers" => L!LayersAgree
             /\ part = "bits" => B!TableIsBits
\* A request is served from the smallest size that holds it, and caches, bins
\* and chunks compute with the same sizes (object_size_index, to_bin_no).
SizesRight == part = "sizes" => Z!SizesRight
=============================================================================
