--------------------------- MODULE SegmentStorage ---------------------------
(***************************************************************************)
(* The application data segment and its block files,                       *)
(* src/include/metall/kernel/segment_storage.hpp, with the file and        *)
(* mapping calls it makes (detail/file.hpp, detail/mmap.hpp).              *)
(*                                                                         *)
(* One storage object works on one directory of block files.  Every system *)
(* call may fail; the operations' results are returned in `result'.        *)
(***************************************************************************)
EXTENDS Integers, Sequences, FiniteSets

CONSTANTS
    k_block_size,     \* bytes of a block file
    Capacities,       \* capacities that create is called with
    OpenCapacity,     \* the one open is called with: k_default_vm_reserve_size
    Requests          \* sizes that extend and free_region are called with

ASSUME StorageAssumption ==
    /\ k_block_size \in Nat \ {0} /\ OpenCapacity \in Nat \ {0}
    /\ Capacities \subseteq Nat \ {0} /\ Requests \subseteq Nat

VARIABLES
    st,       \* the storage object
    files,    \* the block files: what extend_file_size made of them
    mapped,   \* what is mapped at the segment: blocks and their protection
    leaked,   \* a VM region is reserved that no object refers to
    result    \* the last operation and what it returned

storageVars == <<st, files, mapped, leaked, result>>

round_up(n) == ((n + k_block_size - 1) \div k_block_size) * k_block_size

\* priv_clear_status.  m_segment is set and cleared with m_vm_region;
\* m_read_only, m_top_path and the list of descriptors stay as they are.
Cleared(s) ==
    [s EXCEPT !.m_system_page_size = 0, !.m_num_blocks = 0,
              !.m_segment_capacity = 0, !.m_current_segment_size = 0,
              !.m_vm_region = FALSE, !.m_segment_header = FALSE]

Broken(s) == [Cleared(s) EXCEPT !.m_broken = TRUE]

\* A new object; get_page_size may fail.
Fresh(known) ==
    LET s == [m_system_page_size |-> 1, m_num_blocks |-> 0,
              m_segment_capacity |-> 0, m_current_segment_size |-> 0,
              m_vm_region |-> FALSE, m_segment_header |-> FALSE,
              m_top_path |-> FALSE, m_free_file_space |-> TRUE,
              m_read_only |-> FALSE, m_block_fd_list |-> {}, m_broken |-> FALSE]
    IN  IF known THEN s ELSE Broken(s)

is_open(s) ==
    /\ ~s.m_broken /\ s.m_system_page_size > 0 /\ s.m_num_blocks > 0
    /\ s.m_segment_capacity > 0 /\ s.m_current_segment_size > 0
    /\ s.m_vm_region /\ s.m_top_path /\ s.m_block_fd_list # {}

NotMapped == [blocks |-> {}, prot |-> "none"]

StorageInit ==
    /\ st \in {Fresh(known) : known \in BOOLEAN}
    /\ files = <<>>
    /\ mapped = NotMapped
    /\ leaked = FALSE
    /\ result = [op |-> "none", ok |-> TRUE]

Returns(op, ok) == result' = [op |-> op, ok |-> ok]

-----------------------------------------------------------------------------
(* Parts of the operations, on a record [st, files, mapped, leaked].       *)

Now == [st |-> st, files |-> files, mapped |-> mapped, leaked |-> leaked]

Becomes(w) == /\ st' = w.st /\ files' = w.files
              /\ mapped' = w.mapped /\ leaked' = w.leaked

\* priv_release_segment: nothing happens unless the segment is open.
priv_release_segment(w, succeeded) ==
    IF ~is_open(w.st) THEN w
    ELSE [w EXCEPT !.st = IF succeeded THEN Cleared(@) ELSE Broken(@),
                   !.mapped = NotMapped,
                   !.leaked = @ \/ ~succeeded]

\* The object is given up: a region that was not released is lost.
Abandon(w) == [w EXCEPT !.st = Broken(@), !.leaked = @ \/ w.st.m_vm_region]

\* priv_reserve_vm, when it succeeds.
priv_reserve_vm(s) == [s EXCEPT !.m_vm_region = TRUE]

\* priv_construct_segment_header maps the header; priv_prepare_header_and_segment
\* ignores its failure.
priv_construct_segment_header(s, ok) == [s EXCEPT !.m_segment_header = ok]

\* priv_prepare_header_and_segment: reserve the header and the capacity.
Prepared(s, request, header) ==
    [priv_construct_segment_header(priv_reserve_vm(s), header) EXCEPT
        !.m_segment_capacity = round_up(request)]

\* The fields that create and open set once that succeeded.
InUse(s, read_only) == [s EXCEPT !.m_top_path = TRUE, !.m_read_only = read_only]

\* priv_test_file_space_free finds out if the file system can free pages of a
\* file, with a file of its own.
TestedFileSpace(s, can_free) == [s EXCEPT !.m_free_file_space = can_free]

\* create_file and extend_file_size on block file n: a file of the right size
\* is left alone.
WithFile(fs, n, content) ==
    IF n < Len(fs)
    THEN [fs EXCEPT ![n + 1] = IF @ = "full" THEN @ ELSE content]
    ELSE Append(fs, content)

\* The descriptors of newly mapped blocks are added to the list.
Listed(s, blocks) == [s EXCEPT !.m_block_fd_list = @ \cup blocks]

\* priv_map_file for block n, and the descriptor it returns.
priv_map_file(w, n) ==
    [w EXCEPT !.mapped = [blocks |-> @.blocks \cup {n}, prot |-> "rw"],
              !.st = Listed(@, {n})]

\* priv_create_new_map ends well, or at the call that fails.
NewMapOutcome == {"ok", "create_file", "extend_file_size", "map_file"}

\* Mutant: the file is not extended.
NewMapUnextended(w, n, outcome) ==
    CASE outcome = "create_file" -> w
      [] outcome = "extend_file_size" -> [w EXCEPT !.files = WithFile(@, n, "short")]
      [] outcome = "map_file" -> [w EXCEPT !.files = WithFile(@, n, "full")]
      [] OTHER -> priv_map_file([w EXCEPT !.files = WithFile(@, n, "short")], n)

priv_create_new_map(w, n, outcome) ==
    CASE outcome = "create_file" -> w
      [] outcome = "extend_file_size" -> [w EXCEPT !.files = WithFile(@, n, "short")]
      [] outcome = "map_file" -> [w EXCEPT !.files = WithFile(@, n, "full")]
      [] OTHER -> priv_map_file([w EXCEPT !.files = WithFile(@, n, "full")], n)

Counted(s, k) == [s EXCEPT !.m_num_blocks = @ + k,
                           !.m_current_segment_size = @ + k * k_block_size]

-----------------------------------------------------------------------------
(* Operations.  The manager makes one storage object per open data store,  *)
(* and uses it for one create or open.                                     *)

Usable == ~st.m_broken /\ ~is_open(st) /\ st.m_system_page_size > 0

\* The destructor.  An object that is still open is synced, and released only
\* when that fails; otherwise its region stays reserved and mapped.
Destructed(w, synced, succeeded) ==
    IF ~is_open(w.st) THEN w
    ELSE IF synced THEN [w EXCEPT !.mapped = NotMapped, !.leaked = TRUE]
    ELSE priv_release_segment(w, succeeded)

\* The destructor of one object and the constructor of the next.
Construct(known) ==
    \E synced, succeeded \in BOOLEAN :
       /\ Becomes([Destructed(Now, synced, succeeded) EXCEPT !.st = Fresh(known)])
       /\ Returns("construct", known)

\* create() on an object that is broken or has a segment open.
Refuse(op) ==
    /\ st.m_broken \/ is_open(st)
    /\ Returns(op, FALSE)
    /\ UNCHANGED <<st, files, mapped, leaked>>

\* priv_create.  storage::create has removed the directory's old files.
Create(request) ==
    LET w == [Now EXCEPT !.files = <<>>]
    IN \E header, can_free \in BOOLEAN :
       LET P == [w EXCEPT !.st = InUse(Prepared(@, request, header), FALSE)]
       IN
        /\ Usable
        /\ \/ /\ Returns("create", FALSE)             \* create_directory
              /\ Becomes(w)
           \/ /\ Returns("create", FALSE)             \* priv_reserve_vm
              /\ Becomes(Abandon(w))
           \/ \E outcome \in NewMapOutcome \ {"ok"} :
                 /\ Returns("create", FALSE)
                 /\ Becomes(Abandon(priv_create_new_map(P, 0, outcome)))
           \/ LET D == [priv_create_new_map(P, 0, "ok") EXCEPT !.st = Counted(@, 1)]
              IN  \/ /\ Returns("create", TRUE)
                     /\ Becomes([D EXCEPT !.st = TestedFileSpace(@, can_free)])
                  \/ \E released \in BOOLEAN :        \* priv_test_file_space_free
                        /\ Returns("create", FALSE)
                        /\ Becomes(Abandon(priv_release_segment(D, released)))

\* The capacity that priv_open reserves: read-only, the size of the files
\* (priv_get_size), which matters only when all of them have the right size.
ReservedFor(read_only) ==
    IF read_only THEN Len(files) * k_block_size ELSE OpenCapacity

\* The first n block files have the right size, and no more.
Mappable(n) ==
    /\ \A i \in 1 .. n : files[i] = "full"
    /\ n < Len(files) => files[n + 1] # "full"

\* The state of priv_open after it has mapped n block files.
WithBlocks(w, n, read_only) ==
    [w EXCEPT !.st = Listed(Counted(@, n), 0 .. n - 1),
              !.mapped = IF n = 0 THEN NotMapped
                         ELSE [blocks |-> 0 .. n - 1,
                               prot |-> IF read_only THEN "r" ELSE "rw"]]

\* priv_open: map the block files one by one.
Open(read_only) ==
    \E header, can_free \in BOOLEAN, good \in 0 .. Len(files) :
    LET R == [Now EXCEPT !.st = InUse(Prepared(@, ReservedFor(read_only), header), read_only)]
        T(w) == IF read_only THEN w
                ELSE [w EXCEPT !.st = TestedFileSpace(@, can_free)]
        Fail(w) == \E released \in BOOLEAN :
                      /\ Returns("open", FALSE)
                      /\ Becomes(Abandon(priv_release_segment(w, released)))
    IN  /\ Usable /\ Mappable(good)
        /\ \/ /\ Returns("open", FALSE)               \* priv_reserve_vm
              /\ Becomes(Abandon(Now))
           \* a file of a wrong size, or a file that cannot be mapped
           \/ good < Len(files) /\ Fail(WithBlocks(R, good, read_only))
           \/ \E n \in 0 .. good - 1 : Fail(WithBlocks(R, n, read_only))
           \/ /\ good = Len(files)
              /\ \/ ~read_only /\ Fail(WithBlocks(R, good, read_only))
                 \/ good = 0 /\ Returns("open", FALSE) /\ Becomes(Abandon(R))
                 \/ /\ good > 0
                    /\ Returns("open", TRUE)
                    /\ Becomes(T(WithBlocks(R, good, read_only)))

\* The blocks a request for more space needs beyond the current ones.
MissingBlocks(request) ==
    IF request <= st.m_current_segment_size THEN 0
    ELSE (request - st.m_current_segment_size + k_block_size - 1) \div k_block_size

\* The loop of priv_extend after k rounds of priv_create_new_map.
Extended(w, k) ==
    LET n == w.st.m_num_blocks
        new == n .. n + k - 1
    IN  [w EXCEPT
           !.files = [i \in DOMAIN @ \cup 1 .. n + k |-> IF i - 1 \in new THEN "full" ELSE @[i]],
           !.mapped = IF k = 0 THEN @ ELSE [blocks |-> @.blocks \cup new, prot |-> "rw"],
           !.st = Listed(Counted(@, k), new)]

Fits(request) == request <= st.m_segment_capacity

\* Mutant: the object stays in use when extending failed.
ExtendCarriesOn(request) ==
    /\ is_open(st) /\ ~st.m_read_only /\ Fits(request)
    /\ \/ /\ Returns("extend", TRUE)
          /\ Becomes(Extended(Now, MissingBlocks(request)))
       \/ \E k \in 0 .. MissingBlocks(request) - 1, outcome \in NewMapOutcome \ {"ok"} :
             LET w == Extended(Now, k)
             IN  /\ Returns("extend", FALSE)
                 /\ Becomes(priv_create_new_map(w, w.st.m_num_blocks, outcome))

\* priv_extend: one block at a time; the first failure gives the object up.
Extend(request) ==
    IF ~is_open(st) \/ st.m_read_only \/ ~Fits(request)
    THEN Returns("extend", FALSE) /\ UNCHANGED <<st, files, mapped, leaked>>
    ELSE \/ /\ Returns("extend", TRUE)
            /\ Becomes(Extended(Now, MissingBlocks(request)))
         \/ \E k \in 0 .. MissingBlocks(request) - 1, outcome \in NewMapOutcome \ {"ok"},
               released \in BOOLEAN :
               LET w == Extended(Now, k)
                   f == priv_create_new_map(w, w.st.m_num_blocks, outcome)
               IN  /\ Returns("extend", FALSE)
                   /\ Becomes(Abandon(priv_release_segment(f, released)))

\* priv_sync_segment: protect, msync, unprotect; each may fail.
Sync ==
    /\ UNCHANGED <<st, files, leaked>>
    /\ IF ~is_open(st) \/ st.m_read_only
       THEN Returns("sync", is_open(st)) /\ UNCHANGED mapped
       ELSE \/ Returns("sync", FALSE) /\ UNCHANGED mapped
            \/ Returns("sync", FALSE) /\ mapped' = [mapped EXCEPT !.prot = "r"]
            \/ Returns("sync", TRUE) /\ mapped' = [mapped EXCEPT !.prot = "rw"]

\* priv_free_region: give the pages back, and the file space where that works.
\* Failing is not an error; nothing of the object changes.
FreeRegion(end) ==
    /\ IF is_open(st) /\ ~st.m_read_only /\ end <= st.m_current_segment_size
       THEN \E ok \in BOOLEAN : Returns("free_region", ok)
       ELSE Returns("free_region", FALSE)
    /\ UNCHANGED <<st, files, mapped, leaked>>

Release(succeeded) ==
    /\ Returns("release", is_open(st) /\ succeeded)
    /\ Becomes(priv_release_segment(Now, succeeded))

StorageNext ==
    \/ \E known \in BOOLEAN : Construct(known)
    \/ \E op \in {"create", "open"} : Refuse(op)
    \/ \E request \in Capacities : Create(request)
    \/ \E request \in Requests : Extend(request) \/ FreeRegion(request)
    \/ \E read_only \in BOOLEAN : Open(read_only)
    \/ Sync
    \/ \E succeeded \in BOOLEAN : Release(succeeded)

StorageSpec == StorageInit /\ [][StorageNext]_storageVars

-----------------------------------------------------------------------------
(* Properties. *)

\* An open segment is all there: as many block files as it counts, each of full
\* size, mapped inside the reserved region (priv_map_file: "segment_offset +
\* file_size <= m_segment_capacity") and with its descriptor, and the size is
\* theirs.  Nothing stays mapped behind an object that is not open.
OpenIsMapped ==
    IF ~is_open(st) THEN mapped = NotMapped
    ELSE
       /\ st.m_current_segment_size <= st.m_segment_capacity
       /\ mapped.blocks = 0 .. st.m_num_blocks - 1
       /\ st.m_block_fd_list = mapped.blocks
       /\ st.m_current_segment_size = st.m_num_blocks * k_block_size
       /\ Len(files) >= st.m_num_blocks
       /\ \A i \in 1 .. st.m_num_blocks : files[i] = "full"

\* A file of a wrong size is left behind by a failed operation only: what a
\* successful release leaves can be opened again, and has all the blocks the
\* segment had.
ReleasedCanBeOpened ==
    [][result' = [op |-> "release", ok |-> TRUE] =>
          /\ Len(files') = st.m_num_blocks
          /\ \A i \in 1 .. Len(files') : files'[i] = "full"]_storageVars

-----------------------------------------------------------------------------
(* The inductive invariant. *)

MostBlocks == (OpenCapacity + k_block_size - 1) \div k_block_size

StorageRec ==
    [m_system_page_size : Nat, m_num_blocks : Nat,
     m_segment_capacity : Nat, m_current_segment_size : Nat,
     m_vm_region : BOOLEAN, m_segment_header : BOOLEAN,
     m_top_path : BOOLEAN, m_free_file_space : BOOLEAN,
     m_read_only : BOOLEAN, m_block_fd_list : SUBSET Nat, m_broken : BOOLEAN]

StorageTypeOK ==
    /\ st \in StorageRec /\ leaked \in BOOLEAN
    /\ files \in Seq({"full", "short"})
    /\ mapped \in [blocks : SUBSET Nat, prot : {"none", "r", "rw"}]

\* There are no more files than open reserves space for, an open segment has all
\* of them and a capacity of whole blocks, and an object that create or open
\* begins with has nothing.
StorageInv ==
    /\ StorageTypeOK
    /\ Len(files) <= MostBlocks
    /\ OpenIsMapped
    /\ is_open(st) =>
          /\ Len(files) = st.m_num_blocks
          /\ \E c \in 1 .. MostBlocks : st.m_segment_capacity = c * k_block_size
    /\ Usable => st.m_num_blocks = 0 /\ st.m_current_segment_size = 0 /\ st.m_block_fd_list = {}

=============================================================================
