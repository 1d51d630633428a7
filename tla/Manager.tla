------------------------------- MODULE Manager -------------------------------
(***************************************************************************)
(* basic_manager: the handle a program holds.  It owns a kernel, refuses   *)
(* calls while the kernel is missing or not good, catches what the kernel  *)
(* throws, and, in the functions that change the store, gives the kernel   *)
(* up when that happens.  With it the allocators a manager hands out       *)
(* (stl_allocator, fallback_allocator_adaptor), which reach the kernel     *)
(* through the segment header and not through the manager.                 *)
(***************************************************************************)
EXTENDS Program

CONSTANTS
    Managers, Kernels, Allocators,
    Memory,              \* blocks of memory that containers hold
    ThrowsAmongOthers    \* kernel functions throw while other threads are in

ASSUME OwnerAssumption == None \notin Kernels \cup Allocators

VARIABLES
    m_kernel,     \* of each manager: the kernel it owns, or None
    kernel,       \* of each kernel: "unborn", "good", "bad" or "closed"
    inside,       \* the call each thread is in, or None
    m_alloc,      \* of each allocator: the kernel whose header it points to, or None
    source,       \* where a block was allocated: None, "heap" or a kernel
    holder,       \* the allocator of the container that holds a block, or None
    undefined     \* whether construct was given a null or bad kernel

managerVars == <<m_kernel, kernel, inside, m_alloc, source, holder, undefined>>

ManagerInit ==
    /\ m_kernel = [m \in Managers |-> None]
    /\ kernel = [k \in Kernels |-> "unborn"]
    /\ inside = [t \in Threads |-> None]
    /\ m_alloc = [a \in Allocators |-> None]
    /\ source = [b \in Memory |-> None]
    /\ holder = [b \in Memory |-> None]
    /\ undefined = FALSE

\* Mutant: the kernel is there.
CheckPresent(m) == m_kernel[m] # None

check_sanity(m) == m_kernel[m] # None /\ kernel[m_kernel[m]] = "good"

\* The kernel is deleted, which closes the store.
Deleted(ks) == [k \in Kernels |-> IF k \in ks THEN "closed" ELSE kernel[k]]

-----------------------------------------------------------------------------
(* The public functions, by how they use the kernel: whether they check it *)
(* and what they do when it throws.                                        *)

Op == [checked : BOOLEAN, onthrow : {"default", "rethrow", "reset"}]

Checked(onthrow) == [checked |-> TRUE, onthrow |-> onthrow]

\* construct, find_or_construct and their iterator forms: the proxy gets
\* m_kernel.get() as it is.
construct == [checked |-> FALSE, onthrow |-> "rethrow"]
manager_find == Checked("default")
manager_destroy == Checked("rethrow")
manager_destroy_ptr == Checked("rethrow")
manager_get_instance_name == Checked("default")
manager_get_instance_length == Checked("default")
get_instance_description == Checked("default")
set_instance_description == Checked("reset")
get_num_objects == Checked("default")
named_begin == Checked("default")
anonymous_begin == Checked("default")
allocate == Checked("reset")
deallocate == Checked("reset")
all_memory_deallocated == Checked("default")
flush == Checked("reset")
snapshot == Checked("reset")
get_uuid == Checked("default")
get_version == Checked("default")
set_description == Checked("reset")
get_description == Checked("default")
get_address == Checked("default")
profile == Checked("reset")

Ops == {construct, manager_find, manager_destroy, manager_destroy_ptr,
        manager_get_instance_name, manager_get_instance_length,
        get_instance_description, set_instance_description, get_num_objects,
        named_begin, anonymous_begin, allocate, deallocate, all_memory_deallocated,
        flush, snapshot, get_uuid, get_version, set_description, get_description,
        get_address, profile}

-----------------------------------------------------------------------------
(* Managers.                                                               *)

Alone(m) == \A t \in Threads : inside[t] # None => inside[t].manager # m

\* The constructors: the kernel opens or creates a store, or reports failure
\* and stays, not good; or something throws and there is none.
NewManager(m, k, outcome) ==
    /\ m_kernel[m] = None /\ Alone(m)
    /\ kernel[k] = "unborn"
    /\ m_kernel' = [m_kernel EXCEPT ![m] = IF outcome = "threw" THEN None ELSE k]
    /\ kernel' = [kernel EXCEPT ![k] = IF outcome = "threw" THEN "closed" ELSE outcome]
    /\ UNCHANGED <<inside, m_alloc, source, holder, undefined>>

\* Mutant: the kernel is shared by both managers.
MoveManagerKeeps(m, n) ==
    /\ m # n /\ Alone(m) /\ Alone(n)
    /\ m_kernel' = [m_kernel EXCEPT ![n] = m_kernel[m]]
    /\ kernel' = Deleted({m_kernel[n]})
    /\ UNCHANGED <<inside, m_alloc, source, holder, undefined>>

\* Move construction and assignment, between calls: the kernel n had is
\* deleted.  Moving from a manager without a kernel is how one is destroyed.
MoveManager(m, n) ==
    /\ m # n /\ Alone(m) /\ Alone(n)
    /\ m_kernel' = [m_kernel EXCEPT ![n] = m_kernel[m], ![m] = None]
    /\ kernel' = Deleted({m_kernel[n]})
    /\ UNCHANGED <<inside, m_alloc, source, holder, undefined>>

\* A call goes into the kernel; with a manager that is not sane a checked one
\* returns its default at once, and construct uses a null or bad kernel.
Enter(t, m, op) ==
    /\ inside[t] = None
    /\ op.checked => check_sanity(m)
    /\ inside' = [inside EXCEPT ![t] =
           IF check_sanity(m) THEN [manager |-> m, kernel |-> m_kernel[m], onthrow |-> op.onthrow]
           ELSE None]
    /\ undefined' = (undefined \/ ~check_sanity(m))
    /\ UNCHANGED <<m_kernel, kernel, m_alloc, source, holder>>

Return(t) ==
    /\ inside[t] # None
    /\ inside' = [inside EXCEPT ![t] = None]
    /\ UNCHANGED <<m_kernel, kernel, m_alloc, source, holder, undefined>>

\* The kernel throws: m_kernel.reset(nullptr) in a function that changes the
\* store, whatever the other threads are doing.
Throw(t) ==
    /\ inside[t] # None
    /\ \A u \in Threads \ {t} :
        ~ThrowsAmongOthers /\ inside[u] # None => inside[u].manager # inside[t].manager
    /\ inside' = [inside EXCEPT ![t] = None]
    /\ IF inside[t].onthrow = "reset"
       THEN /\ m_kernel' = [m_kernel EXCEPT ![inside[t].manager] = None]
            /\ kernel' = Deleted({m_kernel[inside[t].manager]})
       ELSE UNCHANGED <<m_kernel, kernel>>
    /\ UNCHANGED <<m_alloc, source, holder, undefined>>

-----------------------------------------------------------------------------
(* Allocators.                                                             *)

\* get_allocator: a null pointer if the manager is not sane.  A container
\* keeps its allocator while it holds memory.
get_allocator(a, m) ==
    /\ \A b \in Memory : holder[b] # a
    /\ m_alloc' = [m_alloc EXCEPT ![a] = IF check_sanity(m) THEN m_kernel[m] ELSE None]
    /\ UNCHANGED <<m_kernel, kernel, inside, source, holder, undefined>>

\* The default constructor of the adaptor.
DefaultAllocator(c) ==
    /\ \A b \in Memory : holder[b] # c
    /\ m_alloc' = [m_alloc EXCEPT ![c] = None]
    /\ UNCHANGED <<m_kernel, kernel, inside, source, holder, undefined>>

\* Copy and move of an allocator.
CopyAllocator(a, c) ==
    /\ \A b \in Memory : holder[b] # c
    /\ m_alloc' = [m_alloc EXCEPT ![c] = m_alloc[a]]
    /\ UNCHANGED <<m_kernel, kernel, inside, source, holder, undefined>>

priv_stateful_allocator_available(a) == m_alloc[a] # None

\* Where allocate and deallocate of the adaptor go: the heap if there is no
\* header.
Source(a) == IF priv_stateful_allocator_available(a) THEN m_alloc[a] ELSE "heap"

\* allocate of both allocators, while the store is open.
AllocateBlock(a, b) ==
    /\ source[b] = None
    /\ m_alloc[a] # None => kernel[m_alloc[a]] = "good"
    /\ source' = [source EXCEPT ![b] = Source(a)]
    /\ holder' = [holder EXCEPT ![b] = a]
    /\ UNCHANGED <<m_kernel, kernel, inside, m_alloc, undefined>>

\* Mutant: two kernels are taken for one.
EqualIfBoth(a, c) == (m_alloc[a] = None) = (m_alloc[c] = None)

\* operator==
Equal(a, c) == m_alloc[a] = m_alloc[c]

\* Containers whose allocators are equal hand memory over.
HandOver(a, c, b) ==
    /\ holder[b] = a /\ a # c /\ Equal(a, c)
    /\ holder' = [holder EXCEPT ![b] = c]
    /\ UNCHANGED <<m_kernel, kernel, inside, m_alloc, source, undefined>>

\* deallocate, while the store is open.
DeallocateBlock(b) ==
    LET a == holder[b] IN
    /\ a # None
    /\ m_alloc[a] # None => kernel[m_alloc[a]] = "good"
    /\ source' = [source EXCEPT ![b] = None]
    /\ holder' = [holder EXCEPT ![b] = None]
    /\ UNCHANGED <<m_kernel, kernel, inside, m_alloc, undefined>>

ManagerNext ==
    \/ \E m \in Managers :
        \/ \E k \in Kernels, o \in {"good", "bad", "threw"} : NewManager(m, k, o)
        \/ \E n \in Managers : MoveManager(m, n)
        \/ \E t \in Threads, op \in Ops : Enter(t, m, op)
        \/ \E a \in Allocators : get_allocator(a, m)
    \/ \E t \in Threads : Return(t) \/ Throw(t)
    \/ \E c \in Allocators : DefaultAllocator(c)
    \/ \E a, c \in Allocators : CopyAllocator(a, c) \/ \E b \in Memory : HandOver(a, c, b)
    \/ \E b \in Memory : DeallocateBlock(b) \/ \E a \in Allocators : AllocateBlock(a, b)

ManagerSpec == ManagerInit /\ [][ManagerNext]_managerVars

-----------------------------------------------------------------------------
(* Properties.                                                             *)

\* A kernel that was opened and not closed has exactly one manager: moves,
\* failed constructors and exceptions neither leak it (its store would never
\* be closed) nor delete it under another manager.
OneManagerPerKernel ==
    \A k \in Kernels :
        IF kernel[k] \in {"good", "bad"}
        THEN \E m \in Managers : \A n \in Managers : m_kernel[n] = k <=> n = m
        ELSE \A m \in Managers : m_kernel[m] # k

\* "This function is thread-safe. Other threads can also call the attributed
\* object construction functions and allocate functions simultaneously": no
\* thread is in a kernel that is closed or whose store was never opened, up to
\* a construct on a manager that is not sane.
KernelAliveInside ==
    ~undefined =>
        \A t \in Threads : inside[t] # None => kernel[inside[t].kernel] = "good"

\* Both: what a manager owns stays its own and open while it is used.
KernelsKept == OneManagerPerKernel /\ KernelAliveInside

\* A block goes back to where it came from: a container frees with an
\* allocator that leads to the same heap or kernel the block is from, whatever
\* managers were moved and kernels closed in between.
FreedWhereAllocated ==
    \A b \in Memory : holder[b] # None => source[b] = Source(holder[b])
=============================================================================
