---------------------------- MODULE AllocatorFiles ----------------------------
(***************************************************************************)
(* The segment allocator of a store that is closed and opened again:       *)
(* serialize() writes the non-full chunk bins and the chunk directory to   *)
(* two files, deserialize() reads them into a new allocator.  The clients' *)
(* objects stay in the segment in between, so all that SegmentAllocator    *)
(* promises has to survive.                                                *)
(***************************************************************************)
EXTENDS SegmentAllocator

CONSTANT NoFile

VARIABLES
    files,       \* the lines of the two files, or NoFile
    good         \* an allocator exists and is loaded

filesVars == <<allocatorVars, files, good>>

-----------------------------------------------------------------------------
\* Mutant: only the chunks that deallocate() can be given are written.
LinesWithoutBodies ==
    [c \in {d \in 0 .. m_last_used_chunk_no :
                m_table[d].type \in {"small_chunk", "large_chunk_head"}} |-> m_table[c]]

\* chunk_directory::serialize: one line for each chunk below size() in use, by
\* chunk number; the slot count and the bitset are part of the line of a small
\* chunk only.
ChunkLines ==
    [c \in {d \in 0 .. m_last_used_chunk_no : ~unused_chunk(d)} |->
        IF m_table[c].type = "small_chunk" THEN m_table[c]
        ELSE [bin_no |-> m_table[c].bin_no, type |-> m_table[c].type]]

\* bin_directory::serialize: a line with bin and chunk for each list element.
\* Of the order of the lines only that of each bin's own is told apart: nth
\* numbers them.
BinLines ==
    UNION {{[bin_no |-> b, nth |-> i, chunk_no |-> m_non_full_chunk_bin[b][i]] :
               i \in DOMAIN m_non_full_chunk_bin[b]} : b \in SmallBins}

Idle == \A t \in Threads : pc[t] = "idle"

\* The store is closed: the cache has given everything back that no client
\* holds, the files are written and the allocator is destroyed.
serialize ==
    /\ good /\ Idle
    /\ files' = [chunks |-> ChunkLines, bins |-> BinLines]
    /\ good' = FALSE
    /\ UNCHANGED allocatorVars

-----------------------------------------------------------------------------
\* A table of zeros, and what the lines say of an entry.
ZeroEntry == [bin_no |-> ZeroBin, type |-> "unused", num_occupied_slots |-> 0, slot_occupancy |-> {}]

LoadedEntry(lines, c) ==
    IF c \notin DOMAIN lines THEN ZeroEntry
    ELSE IF lines[c].type = "small_chunk" THEN lines[c]
    ELSE [bin_no |-> lines[c].bin_no, type |-> lines[c].type,
          num_occupied_slots |-> 0, slot_occupancy |-> {}]

\* m_last_used_chunk_no: the largest chunk number read.
IsLastLoaded(lines, l) ==
    /\ l \in {-1} \cup DOMAIN lines
    /\ \A c \in DOMAIN lines : c <= l

\* Mutant: the lists are read up to their first element.
LoadedBinFirst(lines, b) ==
    [i \in {l.nth : l \in {k \in lines : k.bin_no = b /\ k.nth = 1}} |->
        (CHOOSE l \in lines : l.bin_no = b /\ l.nth = i).chunk_no]

\* bin_directory::deserialize appends to the list of the line's bin.
LoadedBin(lines, b) ==
    [i \in {l.nth : l \in {k \in lines : k.bin_no = b}} |->
        (CHOOSE l \in lines : l.bin_no = b /\ l.nth = i).chunk_no]

\* The number of chunks the block files have: what was mapped, or, after the
\* storage broke, at least what the objects need.
Reopened(n) ==
    IF m_segment_size # 0 THEN n = m_segment_size
    ELSE /\ n \in {BlockChunks * i : i \in 1 .. Capacity \div BlockChunks}
         /\ \A o \in live : \A c \in Extent(o[1], o[2]) : c < n

\* The store is opened.  No memory for a bitset, or a file that cannot be read:
\* deserialize() returns false, what it had read is thrown away with the new
\* allocator, and the store can be opened another time.
deserialize(succeeds) ==
    /\ ~good
    /\ IF succeeds
       THEN /\ m_non_full_chunk_bin' = [b \in SmallBins |-> LoadedBin(files.bins, b)]
            /\ m_table' = [c \in Chunk |-> LoadedEntry(files.chunks, c)]
            /\ \E l \in -1 .. MaxNumChunks - 1 :
                   IsLastLoaded(files.chunks, l) /\ m_last_used_chunk_no' = l
            /\ \E n \in 0 .. Capacity : Reopened(n) /\ m_segment_size' = n
            /\ good' = TRUE
       ELSE UNCHANGED <<m_non_full_chunk_bin, m_table, m_last_used_chunk_no, m_segment_size, good>>
    /\ UNCHANGED <<m_chunk_mutex, m_bin_mutex, live, pc, locals, aborted, files>>

-----------------------------------------------------------------------------
FilesInit == Init /\ files = NoFile /\ good = TRUE

\* The files of a store that is open and changed are not read again.
FilesNext ==
    \/ good /\ Next /\ files' = NoFile /\ UNCHANGED good
    \/ serialize
    \/ \E succeeds \in BOOLEAN : deserialize(succeeds)

FilesSpec == FilesInit /\ [][FilesNext]_filesVars

-----------------------------------------------------------------------------
\* An allocator that has just been loaded satisfies the whole invariant of the allocator
\* with respect to the objects clients hold since before the store was closed:
\* no slot, no large object and no place in a list is lost by the files.
SurvivesReopen == good /\ files # NoFile => AllocatorInv

\* The inductive invariant of the proofs: the allocator that is running, or
\* that was destroyed last, satisfies its own, and the files of a closed store
\* are what that allocator wrote.
FilesInv ==
    /\ AllocatorInv /\ InsideSegment /\ ListedInside
    /\ good \in BOOLEAN
    /\ ~good => Idle /\ files = [chunks |-> ChunkLines, bins |-> BinLines]
=============================================================================
