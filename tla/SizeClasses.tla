----------------------------- MODULE SizeClasses -----------------------------
(***************************************************************************)
(* The arithmetic under the allocator: size classes and bin numbers        *)
(* (object_size_manager.hpp, bin_number_manager.hpp), aligned allocation,  *)
(* the sizes of the object cache, and the integer helpers of               *)
(* detail/utilities.hpp.  The functions are pure; the specification feeds  *)
(* them every request in turn and compares them with their definitions.    *)
(***************************************************************************)
EXTENDS Integers, Sequences, FiniteSets, FiniteSetsExt

CONSTANTS
    ChunkSize,        \* k_chunk_size
    MaxObjectSize,    \* k_max_object_size
    WordBits,         \* bits of uint64_t, so many that no request overflows
    BlockCapacity,    \* cache_block::k_capacity
    CacheSize,        \* the size of a cache of one CPU
    MaxRequest,       \* bound on the requests tried
    MaxGroups         \* bound on the groups a range is divided into

VARIABLE nbytes

-----------------------------------------------------------------------------
(* detail/utilities.hpp                                                    *)

\* x |= x >> k for k = 1, 2, 4, ...: every bit below the highest becomes one.
Log2(n) == Max({i \in 0 .. WordBits - 1 : 2^i <= n})
clzll(n) == WordBits - 1 - Log2(n)
Smear(x) == IF x = 0 THEN 0 ELSE 2^(Log2(x) + 1) - 1
next_power_of_2(n) == (Smear((n - 1) % 2^WordBits) + 1) % 2^WordBits

Quotient(a, b) == IF a >= 0 THEN a \div b ELSE -((-a) \div b)   \* C++ division
round_up(n, base) == Quotient(n + (IF n >= 0 THEN base - 1 ELSE 0), base) * base
round_down(n, base) == Quotient(n - (IF n < 0 THEN base - 1 ELSE 0), base) * base

\* Mutant: the rest is left out.
PartialRangeEven(length, block_no, num_blocks) ==
    [begin |-> (length \div num_blocks) * block_no, end |-> (length \div num_blocks) * (block_no + 1)]

partial_range(length, block_no, num_blocks) ==
    LET partial_length == length \div num_blocks
        r == length % num_blocks
        begin == IF block_no < r THEN (partial_length + 1) * block_no
                 ELSE (partial_length + 1) * r + partial_length * (block_no - r)
    IN  [begin |-> begin,
         end |-> begin + partial_length + (IF block_no < r THEN 1 ELSE 0)]

-----------------------------------------------------------------------------
(* The table of sizes.                                                     *)

k_class1_small_size_table ==
    <<8, 10, 12, 14, 16, 20, 24, 28, 32, 40, 48, 56, 64, 80, 96, 112, 128, 160, 192, 224, 256>>
k_min_class2_offset == 64
k_max_small_size == ChunkSize \div 2

\* Four sizes at each distance, then the distance doubles.
Class2Sizes ==
    LET sizes[g \in 0 .. WordBits] ==
            LET before == 2^(8 + g)
                offset == k_min_class2_offset * 2^g
                group == SelectSeq([i \in 1 .. 4 |-> before + i * offset], LAMBDA s : s <= k_max_small_size)
            IN  IF before > k_max_small_size THEN <<>> ELSE group \o sizes[g + 1]
    IN  sizes[0]

num_large_sizes == Cardinality({i \in 0 .. WordBits : ChunkSize * 2^i <= MaxObjectSize})

init_size_table ==
    k_class1_small_size_table \o Class2Sizes \o [i \in 1 .. num_large_sizes |-> ChunkSize * 2^(i - 1)]

num_small_bins == Len(k_class1_small_size_table) + Len(Class2Sizes)

\* Indices are the bin numbers of the code, from 0.
to_object_size(bin_no) == init_size_table[bin_no + 1]

find_in_size_table(size, offset) ==
    Min({i \in offset .. Len(init_size_table) - 1 : size <= to_object_size(i)})

\* Mutant: the request is not rounded up to the next quarter first.
IndexTruncated(size) ==
    IF size <= to_object_size(0) THEN 0
    ELSE IF size <= 256
    THEN 4 * (Log2(size) - 3) + ((size \div 2^(Log2(size) - 2)) % 4)
    ELSE find_in_size_table(size, Len(k_class1_small_size_table))

\* Sizes up to 256 by arithmetic: four classes between two powers of two.
object_size_index(size) ==
    IF size <= to_object_size(0) THEN 0
    ELSE IF size <= k_class1_small_size_table[Len(k_class1_small_size_table)]
    THEN LET z == clzll(size)
             r == size + 2^(WordBits - 3 - z) - 1
             y == clzll(r)
         IN  4 * (WordBits - 4 - y) + ((r \div 2^(WordBits - 3 - y)) % 4)
    ELSE find_in_size_table(size, Len(k_class1_small_size_table))

to_bin_no(size) == object_size_index(size)

-----------------------------------------------------------------------------
(* segment_allocator::allocate_aligned: the bin it allocates from, or      *)
(* NoBin for a null offset.                                                *)

NoBin == -1

\* Mutant: the size need not be a multiple of the alignment.
AlignedAnySize(n, alignment) ==
    IF \/ alignment < to_object_size(0) \/ alignment # next_power_of_2(alignment)
       \/ alignment > ChunkSize
    THEN NoBin ELSE to_bin_no(n)

allocate_aligned(n, alignment) ==
    IF \/ alignment < to_object_size(0)
       \/ alignment # next_power_of_2(alignment)
       \/ alignment > ChunkSize
       \/ n % alignment # 0
       \/ n = 0
    THEN NoBin
    ELSE to_bin_no(n)

\* The offsets of the objects of a bin inside their chunk.
ChunkOffsets(bin_no) ==
    IF bin_no < num_small_bins
    THEN {i * to_object_size(bin_no) : i \in 0 .. ChunkSize \div to_object_size(bin_no) - 1}
    ELSE {0}

-----------------------------------------------------------------------------
(* The object cache.                                                       *)

comp_chunk_size(bin_no) ==
    Max({Min({4096 \div to_object_size(bin_no), BlockCapacity}), 8})

\* Mutant: the first bin that does not fit is cached as well.
MaxBinOneMore(request) ==
    LET over == {b \in 0 .. num_small_bins - 1 : CacheSize < comp_chunk_size(b) * 2 * to_object_size(b)}
    IN  Min({to_bin_no(request), IF over = {} THEN num_small_bins ELSE Min(over)})

comp_max_bin_no(request) ==
    LET over == {b \in 0 .. num_small_bins - 1 : CacheSize < comp_chunk_size(b) * 2 * to_object_size(b)}
    IN  IF 0 \in over THEN 0
        ELSE Min({to_bin_no(request), IF over = {} THEN num_small_bins ELSE Min(over) - 1})

comp_num_blocks_per_cache == (CacheSize \div to_object_size(0)) \div BlockCapacity

-----------------------------------------------------------------------------
Init == nbytes = 0

Request == nbytes = 0 /\ nbytes' \in 1 .. MaxRequest
Answered == nbytes # 0 /\ nbytes' = 0

Next == Request \/ Answered

Spec == Init /\ [][Next]_nbytes

-----------------------------------------------------------------------------
\* A request gets the smallest size that holds it, also where the index is
\* computed and not searched (object_size_index); sizes above the chunk are
\* whole chunks.
LeastSizeThatFits ==
    LET bin_no == to_bin_no(nbytes)
    IN  /\ nbytes <= to_object_size(bin_no)
        /\ bin_no > 0 => to_object_size(bin_no - 1) < nbytes
        /\ bin_no >= num_small_bins => to_object_size(bin_no) % ChunkSize = 0

\* allocate_aligned does nothing for the alignment but to check its arguments:
\* every object of the bin it chooses is aligned (the two asserts there).
AlignedByItsSize ==
    \A alignment \in {2^i : i \in 0 .. Log2(ChunkSize) + 1} :
        LET bin_no == allocate_aligned(nbytes, alignment)
        IN  bin_no # NoBin => /\ to_object_size(bin_no) % alignment = 0
                              /\ \A o \in ChunkOffsets(bin_no) : o % alignment = 0

\* Whatever object size a program asks to be cached, every bin the cache takes
\* has room for two batches, and is a bin of small objects.
CachedBinsFit ==
    LET most == comp_max_bin_no(Max({nbytes, 1}))
    IN  /\ most < num_small_bins
        /\ \A b \in 1 .. most : comp_chunk_size(b) * 2 * to_object_size(b) <= CacheSize

\* The groups of partial_range are consecutive, cover the range and differ in
\* size by one at most, with fewer elements than groups as well.
RangesPartition ==
    \A n \in 1 .. MaxGroups :
        /\ partial_range(nbytes, 0, n).begin = 0
        /\ partial_range(nbytes, n - 1, n).end = nbytes
        /\ \A i \in 0 .. n - 2 :
              partial_range(nbytes, i, n).end = partial_range(nbytes, i + 1, n).begin
        /\ \A i \in 0 .. n - 1 :
              partial_range(nbytes, i, n).end - partial_range(nbytes, i, n).begin
                  \in {nbytes \div n, nbytes \div n + 1}

\* What the allocator and its cache rely on, for every request.
SizesRight == LeastSizeThatFits /\ AlignedByItsSize /\ CachedBinsFit /\ RangesPartition
=============================================================================
