---------------------------- MODULE KeyValuePair ----------------------------
(***************************************************************************)
(* The pairs of a JSON object, json/key_value_pair.hpp.  A short key is    *)
(* kept in the pair, in the place of the pointer to the memory of a long   *)
(* one; the length says which of the two it is.  The pointer is an         *)
(* offset_ptr: its bytes mean something only at their own address.  The    *)
(* mapped value decides nothing but the allocator and is JsonValue's.      *)
(***************************************************************************)
EXTENDS Integers, FiniteSets

CONSTANTS
    Slots,       \* places for pairs
    Allocators,
    Length,      \* the length of each key
    ShortMax,    \* k_short_key_max_length
    Blocks,      \* bound: blocks of memory in use
    MixedSwap,   \* programs swap a short with a long key
    None

Keys == DOMAIN Length
EmptyKey == CHOOSE k \in Keys : Length[k] = 0

VARIABLES
    pair,    \* each slot: allocator, m_key_length, the union; or None
    block,   \* the memory in use: its allocator and the key in it
    want     \* history: the key each pair was last given

vars == <<pair, block, want>>

Bytes(k) == [is |-> "bytes", of |-> k]
Pointer(b) == [is |-> "pointer", of |-> b]
nullptr == Pointer(None)
Garbage == [is |-> "garbage", of |-> None]

Init == /\ pair = [s \in Slots |-> None]
        /\ block = [b \in Blocks |-> None]
        /\ want = [s \in Slots |-> EmptyKey]

-----------------------------------------------------------------------------
priv_short_key(p) == p.m_key_length <= ShortMax

\* key(): the bytes in the pair, or those the pointer leads to, as far as
\* m_key_length.
key(p) ==
    LET at == IF priv_short_key(p)
              THEN IF p.store.is = "bytes" THEN p.store.of ELSE None
              ELSE IF p.store.is = "pointer" /\ p.store.of \in Blocks /\ block[p.store.of] # None
                   THEN block[p.store.of].key ELSE None
    IN  IF p.m_key_length = 0 THEN EmptyKey
        ELSE IF at # None /\ Length[at] = p.m_key_length THEN at ELSE None

FreshBlock(b) == block[b] = None

\* priv_allocate_key: pair and memory, b being the memory a long key gets.
Allocated(a, k, b) ==
    [m_allocator |-> a, m_key_length |-> Length[k],
     store |-> IF Length[k] <= ShortMax THEN Bytes(k) ELSE Pointer(b)]
Filled(mem, a, k, b) ==
    IF Length[k] <= ShortMax THEN mem ELSE [mem EXCEPT ![b] = [alloc |-> a, key |-> k]]

\* priv_deallocate_key
Deallocated(p) ==
    [p EXCEPT !.m_key_length = 0, !.store = IF priv_short_key(p) THEN @ ELSE nullptr]
Released(mem, p) ==
    IF priv_short_key(p) \/ p.store.of \notin Blocks THEN mem
    ELSE [mem EXCEPT ![p.store.of] = None]

\* Mutant: the moved-from pair keeps its length and its pointer.
LeftIntact(p) == p

\* A moved-from pair keeps the bytes of a short key, at length 0.
Left(p) == [p EXCEPT !.m_key_length = 0, !.store = IF priv_short_key(p) THEN @ ELSE nullptr]
Taken(a, p) == [p EXCEPT !.m_allocator = a]

-----------------------------------------------------------------------------
Construct(s, k, a) ==
    /\ pair[s] = None
    /\ \E b \in Blocks :
          /\ FreshBlock(b)
          /\ pair' = [pair EXCEPT ![s] = Allocated(a, k, b)]
          /\ block' = Filled(block, a, k, b)
    /\ want' = [want EXCEPT ![s] = k]

\* The copy constructors, with the other's allocator or a given one.
CopyConstruct(s, o, a) ==
    /\ pair[o] # None /\ Construct(s, key(pair[o]), a)

\* The move constructor: the value brings its allocator along.
MoveConstruct(s, o) ==
    /\ pair[s] = None /\ pair[o] # None
    /\ pair' = [pair EXCEPT ![s] = pair[o], ![o] = Left(@)]
    /\ want' = [want EXCEPT ![s] = want[o], ![o] = EmptyKey]
    /\ UNCHANGED block

\* How the key gets from o to s, which is empty and has allocator a: taken over
\* if the allocators are equal, copied and deallocated if not.
MoveKey(mem, s, o, a) ==
    LET p == pair[o] IN
    /\ IF a = p.m_allocator
       THEN /\ pair' = [pair EXCEPT ![s] = Taken(a, p), ![o] = Left(p)]
            /\ block' = mem
       ELSE \E b \in Blocks :
            /\ mem[b] = None
            /\ pair' = [pair EXCEPT ![s] = Allocated(a, key(p), b), ![o] = Deallocated(p)]
            /\ block' = Released(Filled(mem, a, key(p), b), p)
    /\ want' = [want EXCEPT ![s] = want[o], ![o] = EmptyKey]

MoveConstructTo(s, o, a) == pair[s] = None /\ pair[o] # None /\ MoveKey(block, s, o, a)

MoveAssign(s, o) ==
    /\ s # o /\ pair[s] # None /\ pair[o] # None
    /\ MoveKey(Released(block, pair[s]), s, o, pair[s].m_allocator)

CopyAssign(s, o) ==
    LET mem == Released(block, pair[s]) IN
    /\ s # o /\ pair[s] # None /\ pair[o] # None
    /\ \E b \in Blocks :
          /\ mem[b] = None
          /\ pair' = [pair EXCEPT ![s] = Allocated(@.m_allocator, key(pair[o]), b)]
          /\ block' = Filled(mem, pair[s].m_allocator, key(pair[o]), b)
    /\ want' = [want EXCEPT ![s] = want[o]]

\* The arrays or the pointers are swapped, as this pair's length says.  The bytes
\* of a pointer are no pointer at the other address, and those of a short key
\* are changed when they are moved as a pointer.
swap(s, o) ==
    LET p == pair[s]
        q == pair[o]
        alike == priv_short_key(p) <=> priv_short_key(q)
    IN  /\ s # o /\ p # None /\ q # None
        /\ p.m_allocator = q.m_allocator
        /\ alike \/ MixedSwap
        /\ pair' = [pair EXCEPT ![s].store = IF alike THEN q.store ELSE Garbage,
                                ![s].m_key_length = q.m_key_length,
                                ![o].store = p.store, ![o].m_key_length = p.m_key_length]
        /\ want' = [want EXCEPT ![s] = want[o], ![o] = want[s]]
        /\ UNCHANGED block

Destroy(s) ==
    /\ pair[s] # None
    /\ pair' = [pair EXCEPT ![s] = None]
    /\ block' = Released(block, pair[s])
    /\ want' = [want EXCEPT ![s] = EmptyKey]

Next ==
    \E s \in Slots :
        \/ Destroy(s)
        \/ \E a \in Allocators, k \in Keys : Construct(s, k, a)
        \/ \E o \in Slots : \/ MoveConstruct(s, o) \/ MoveAssign(s, o)
                            \/ CopyAssign(s, o) \/ swap(s, o)
                            \/ \E a \in Allocators : CopyConstruct(s, o, a) \/ MoveConstructTo(s, o, a)

Spec == Init /\ [][Next]_vars

-----------------------------------------------------------------------------
(* Properties.                                                             *)

Alive == {s \in Slots : pair[s] # None}
Long == {s \in Alive : ~priv_short_key(pair[s])}

\* key() is the key the pair was given, through copies, moves and swaps ("Swap
\* contents.").
KeysKept == \A s \in Alive : key(pair[s]) = want[s]

\* The memory of a long key belongs to one pair and to that pair's allocator,
\* which will free it; all memory has such an owner, and key() reads the key the
\* pair was given.
KeysOwned ==
    /\ KeysKept
    /\ \A s \in Long : block[pair[s].store.of].alloc = pair[s].m_allocator
    /\ \A s, o \in Long : pair[s].store.of = pair[o].store.of => s = o
    /\ {b \in Blocks : block[b] # None} = {pair[s].store.of : s \in Long}
=============================================================================
