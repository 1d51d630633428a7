------------------------------ MODULE VmRegion ------------------------------
(***************************************************************************)
(* The address space as detail/mmap.hpp changes it: reservations and their *)
(* trimming, anonymous and file maps, anywhere or over a part of a region  *)
(* the caller holds, protection, uncommitting and unmapping.  Every system *)
(* call may fail.  The file descriptors are the ones these functions open. *)
(***************************************************************************)
EXTENDS Integers, FiniteSets

CONSTANTS
    PageSize,      \* bytes of a page
    Low,           \* the kernel places nothing below this address
    High,          \* end of the address space
    Alignments,    \* alignments asked for
    Lengths,       \* lengths asked for
    Fds            \* file descriptors

Pages == 0 .. High \div PageSize - 1

VARIABLES
    page,     \* page -> "free", "none" (PROT_NONE), "mapped" or "resident"
    held,     \* regions the caller was given, with alignment and file descriptor
    fds,      \* open file descriptors
    given,    \* file descriptors the caller was given
    lost      \* history: pages left by a trim or a munmap that failed

vars == <<page, held, fds, given, lost>>

PagesOf(at, length) == {at \div PageSize + k : k \in 0 .. length \div PageSize - 1}
Region(at, length, align, fd) == [at |-> at, length |-> length, align |-> align, fd |-> fd]
NoFd == 0

Init == page = [p \in Pages |-> "free"] /\ held = {} /\ fds = {} /\ given = {} /\ lost = {}

round_up(v, base) == ((v + base - 1) \div base) * base

\* What mmap finds without MAP_FIXED: page aligned and free.
Places(length) ==
    {at \in {PageSize * p : p \in Pages} :
        at >= Low /\ at + length <= High /\ \A p \in PagesOf(at, length) : page[p] = "free"}

\* Addresses and offsets that are not page aligned are refused first.
os_mmap(at, length, what) ==
    /\ at % PageSize = 0
    /\ page' = [p \in Pages |-> IF p \in PagesOf(at, length) THEN what ELSE page[p]]

os_munmap(pages) == page' = [p \in Pages |-> IF p \in pages THEN "free" ELSE page[p]]

-----------------------------------------------------------------------------
(* Reservations                                                            *)

reserve_vm_region(length) ==
    \E at \in Places(length) :
        /\ os_mmap(at, length, "none")
        /\ held' = held \cup {Region(at, length, PageSize, NoFd)}
        /\ UNCHANGED <<fds, given, lost>>

\* Mutant: the tail stays.
TailKept(at, aligned, length, alignment, trims) ==
    IF trims = 0 THEN PagesOf(at, length + alignment)
    ELSE PagesOf(aligned, length + alignment - (aligned - at))

\* The pages that are mapped after the trims: all, all but the head, or the
\* region itself.
Trimmed(at, aligned, length, alignment, trims) ==
    CASE trims = 0 -> PagesOf(at, length + alignment)
      [] trims = 1 -> PagesOf(aligned, length + alignment - (aligned - at))
      [] trims = 2 -> PagesOf(aligned, length)

\* trims counts the os_munmap calls that worked.  A surplus of 0 needs no call.
reserve_aligned_vm_region(alignment, length, trims) ==
    /\ alignment % PageSize = 0 /\ length % alignment = 0
    /\ \E at \in Places(length + alignment) :
        LET aligned == round_up(at, alignment)
            kept == Trimmed(at, aligned, length, alignment, trims)
        IN  /\ trims = 0 => aligned > at
            /\ page' = [p \in Pages |-> IF p \in kept THEN "none" ELSE page[p]]
            /\ IF trims = 2
               THEN held' = held \cup {Region(aligned, length, alignment, NoFd)} /\ UNCHANGED lost
               ELSE lost' = lost \cup kept /\ UNCHANGED held
    /\ UNCHANGED <<fds, given>>

\* The failure of the first os_mmap is not looked at: 0 is aligned, the head is
\* empty, and the tail that is unmapped begins at the address length.
ReserveFails(alignment, length) ==
    /\ alignment % PageSize = 0 /\ length % alignment = 0
    /\ os_munmap(PagesOf(length, alignment))
    /\ UNCHANGED <<held, fds, given, lost>>

-----------------------------------------------------------------------------
(* Maps                                                                    *)

\* Where a map goes: anywhere, as a region of its own, or with MAP_FIXED over a
\* part of a region the caller holds.
Mapped(at, length, fixed, fd) ==
    /\ IF fixed
       THEN /\ at % PageSize = 0
            /\ \E h \in held : PagesOf(at, length) \subseteq PagesOf(h.at, h.length)
            /\ UNCHANGED held
       ELSE /\ at \in Places(length)
            /\ held' = held \cup {Region(at, length, PageSize, fd)}
    /\ os_mmap(at, length, "mapped")
    /\ UNCHANGED lost

map_anonymous_write_mode(at, length, fixed) ==
    Mapped(at, length, fixed, NoFd) /\ UNCHANGED <<fds, given>>

\* By name: the descriptor is the caller's, and closed again when mmap fails.
MapFile(at, length, fixed, fd) ==
    /\ fd \notin fds
    /\ Mapped(at, length, fixed, fd)
    /\ fds' = fds \cup {fd} /\ given' = given \cup {fd}

\* Mutant: the descriptor is not closed.
FailOpen(fd) ==
    /\ fd \notin fds
    /\ fds' = fds \cup {fd}
    /\ UNCHANGED <<page, held, given, lost>>

MapFileFails(fd) ==
    /\ fd \notin fds
    /\ UNCHANGED vars

\* By the descriptor of a file that is open already.
MapFd(at, length, fixed, fd) ==
    /\ fd \in given
    /\ Mapped(at, length, fixed, NoFd)
    /\ UNCHANGED <<fds, given>>

\* Over the whole region, with MAP_FIXED.
map_with_prot_none(h) == os_mmap(h.at, h.length, "none") /\ UNCHANGED <<held, fds, given, lost>>

os_close(fd) ==
    /\ fd \in given
    /\ fds' = fds \ {fd} /\ given' = given \ {fd}
    /\ held' = {[h EXCEPT !.fd = IF @ = fd THEN NoFd ELSE @] : h \in held}
    /\ UNCHANGED <<page, lost>>

-----------------------------------------------------------------------------
(* Unmapping                                                               *)

\* With call_msync the region is written and stays mapped, and the answer is that
\* of msync.  A region that could not be unmapped is still the caller's.
munmap(h, call_msync, ok) ==
    /\ IF ok THEN held' = held \ {h} ELSE UNCHANGED held
    /\ IF ok /\ ~call_msync THEN os_munmap(PagesOf(h.at, h.length)) ELSE UNCHANGED page
    /\ lost' = IF ok /\ call_msync THEN lost \cup PagesOf(h.at, h.length) ELSE lost
    /\ UNCHANGED <<fds, given>>

\* The descriptor is closed in any case.
MunmapFd(h, call_msync, ok) ==
    /\ h.fd # NoFd
    /\ fds' = fds \ {h.fd} /\ given' = given \ {h.fd}
    /\ held' = (held \ {h}) \cup (IF ok THEN {} ELSE {[h EXCEPT !.fd = NoFd]})
    /\ IF ok /\ ~call_msync THEN os_munmap(PagesOf(h.at, h.length)) ELSE UNCHANGED page
    /\ lost' = IF ok /\ call_msync THEN lost \cup PagesOf(h.at, h.length) ELSE lost

-----------------------------------------------------------------------------
(* Pages                                                                   *)

\* The program uses a page.
Touch(p) ==
    /\ page[p] = "mapped"
    /\ page' = [page EXCEPT ![p] = "resident"]
    /\ UNCHANGED <<held, fds, given, lost>>

\* os_madvise: tried again while it answers EAGAIN, four times at most; of
\* MADV_REMOVE that fails, MADV_DONTNEED is tried.
Uncommit(h) ==
    /\ page' = [p \in Pages |-> IF p \in PagesOf(h.at, h.length) /\ page[p] = "resident"
                               THEN "mapped" ELSE page[p]]
    /\ UNCHANGED <<held, fds, given, lost>>

Next ==
    \/ \E l \in Lengths : reserve_vm_region(l)
    \/ \E a \in Alignments, l \in Lengths :
        ReserveFails(a, l) \/ \E t \in 0 .. 2 : reserve_aligned_vm_region(a, l, t)
    \/ \E at \in {PageSize * p : p \in Pages}, l \in Lengths, fixed \in BOOLEAN :
        \/ map_anonymous_write_mode(at, l, fixed)
        \/ \E fd \in Fds : MapFile(at, l, fixed, fd) \/ MapFd(at, l, fixed, fd)
    \/ \E fd \in Fds : MapFileFails(fd) \/ os_close(fd)
    \/ \E h \in held :
        \/ map_with_prot_none(h) \/ Uncommit(h)
        \/ \E ok, call_msync \in BOOLEAN : munmap(h, call_msync, ok) \/ MunmapFd(h, call_msync, ok)
    \/ \E p \in Pages : Touch(p)

Spec == Init /\ [][Next]_vars

-----------------------------------------------------------------------------
(* Properties.                                                             *)

\* Regions are what was asked for, aligned, and disjoint; no page stays mapped
\* that is in no region, except those that a failed trim or the msync variant of
\* munmap leaves; no descriptor stays open that the caller does not have.
RegionsExact ==
    /\ \A h \in held : h.at % h.align = 0 /\ \A p \in PagesOf(h.at, h.length) : page[p] # "free"
    /\ \A g, h \in held : g # h => PagesOf(g.at, g.length) \cap PagesOf(h.at, h.length) = {}
    /\ {p \in Pages : page[p] # "free"} = lost \cup UNION {PagesOf(h.at, h.length) : h \in held}
    /\ fds = given
=============================================================================
