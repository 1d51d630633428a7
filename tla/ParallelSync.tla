----------------------------- MODULE ParallelSync -----------------------------
(***************************************************************************)
(* priv_parallel_msync (segment_storage.hpp): threads take the blocks of a *)
(* segment one by one and synchronise each with its file.  In the build    *)
(* with METALL_USE_ANONYMOUS_NEW_MAP a new block is an anonymous map until *)
(* its first synchronisation writes it and maps the file in its place; a   *)
(* failure there releases the segment while other threads use it.          *)
(***************************************************************************)
EXTENDS Integers, FiniteSets

CONSTANTS
    MaxBlocks,    \* bound: blocks of the segment
    Cpus,         \* hardware_concurrency()
    None

VARIABLES
    size,            \* m_block_fd_list.size()
    anonymous,       \* blocks that are anonymous maps
    threads,         \* each thread: the block it works on, Idle or Left
    block_no_count,
    num_successes,
    saved,           \* blocks whose content is in their file
    released,        \* the segment was released
    result           \* None, or the answer

vars == <<size, anonymous, threads, block_no_count, num_successes, saved, released, result>>

Blocks == 0 .. MaxBlocks - 1
Idle == -1
Left == -2
Least(a, b) == IF a < b THEN a ELSE b

Init ==
    /\ size \in 1 .. MaxBlocks
    /\ anonymous \in SUBSET (0 .. size - 1)
    /\ threads = [t \in 1 .. Least(size, Cpus) |-> Idle]
    /\ block_no_count = 0 /\ num_successes = 0
    /\ saved = {} /\ released = FALSE /\ result = None

\* Mutant: the counter is read and written in two steps, and the second thread
\* takes the block of the first.
TakeTwice(t) ==
    /\ threads[t] = Idle
    /\ \E next \in {block_no_count, block_no_count + 1} : block_no_count' = next
    /\ threads' = [threads EXCEPT ![t] = IF block_no_count < size THEN block_no_count ELSE Left]
    /\ UNCHANGED <<size, anonymous, num_successes, saved, released, result>>

\* block_no_count.fetch_add(1)
Take(t) ==
    /\ threads[t] = Idle
    /\ block_no_count' = block_no_count + 1
    /\ threads' = [threads EXCEPT ![t] = IF block_no_count < size THEN block_no_count ELSE Left]
    /\ UNCHANGED <<size, anonymous, num_successes, saved, released, result>>

Counted(t, ok) ==
    /\ num_successes' = num_successes + (IF ok THEN 1 ELSE 0)
    /\ threads' = [threads EXCEPT ![t] = Idle]

\* os_msync; of a region that was released it fails.
Sync(t, ok) ==
    /\ threads[t] \in Blocks \ anonymous
    /\ released => ~ok
    /\ saved' = IF ok THEN saved \cup {threads[t]} ELSE saved
    /\ Counted(t, ok)
    /\ UNCHANGED <<size, anonymous, block_no_count, released, result>>

\* write() and the map of the file.  When one fails the segment is released, and
\* the list of blocks is empty.
priv_sync_anonymous_map(t, ok) ==
    /\ threads[t] \in Blocks \cap anonymous
    /\ released => ~ok
    /\ anonymous' = anonymous \ {threads[t]}
    /\ saved' = IF ok THEN saved \cup {threads[t]} ELSE saved
    /\ size' = IF ok THEN size ELSE 0
    /\ released' = (released \/ ~ok)
    /\ Counted(t, ok)
    /\ UNCHANGED <<block_no_count, result>>

\* All threads joined.  The segment is synchronised again later.
Answer ==
    /\ result = None /\ \A t \in DOMAIN threads : threads[t] = Left
    /\ result' = (num_successes = size)
    /\ UNCHANGED <<size, anonymous, threads, block_no_count, num_successes, saved, released>>

Again ==
    /\ result # None /\ ~released
    /\ threads' = [t \in DOMAIN threads |-> Idle]
    /\ block_no_count' = 0 /\ num_successes' = 0 /\ saved' = {} /\ result' = None
    /\ UNCHANGED <<size, anonymous, released>>

Closed == released /\ result # None /\ UNCHANGED vars

Next ==
    \/ \E t \in DOMAIN threads :
        Take(t) \/ \E ok \in BOOLEAN : Sync(t, ok) \/ priv_sync_anonymous_map(t, ok)
    \/ Answer \/ Again \/ Closed

Spec == Init /\ [][Next]_vars

\* sync() answers true exactly when every block is in its file, unless the segment
\* was released; no block is synchronised by two threads at a time.
SyncedMeansSaved ==
    /\ result # None /\ ~released => (result <=> saved = 0 .. size - 1)
    /\ \A t, u \in DOMAIN threads : t # u /\ threads[t] \in Blocks => threads[t] # threads[u]
=============================================================================
