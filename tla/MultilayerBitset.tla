--------------------------- MODULE MultilayerBitset ---------------------------
(***************************************************************************)
(* The bitset of the slots of a small-object chunk (multilayer_bitset.hpp):*)
(* a leaf layer with one bit per slot and, above it, index layers whose    *)
(* bits say which blocks of the layer below are full.  All layers are in   *)
(* one array of blocks, the root first.  A block is the set of positions   *)
(* of its true bits, counted from the most significant one as in           *)
(* bitset.hpp.                                                             *)
(***************************************************************************)
EXTENDS Naturals, Sequences, FiniteSets, FiniteSetsExt, SequencesExt

CONSTANTS
    Shapes,      \* [block |-> bits in a block, size |-> bits of the set]
    MaxMany,     \* bound on the bits asked for in one call
    None         \* no array; nothing written

VARIABLES
    shape,
    array,       \* m_data: the blocks, or None before allocate()
    count,       \* num_occupied_slots: what the caller counts
    saved        \* what serialize() returned, with that count, or None

vars == <<shape, array, count, saved>>

-----------------------------------------------------------------------------
(* Blocks.                                                                 *)

block_size == shape.block
Bits == 0 .. block_size - 1
full_block(b) == b = Bits
empty_block(b) == b = {}
\* clzll(~block)
find_first_false_bit_in_block(b) == IF empty_block(b) THEN 0 ELSE Min(Bits \ b)
\* Ones from start on, without the ones from start + n on.
generate_mask(start, n) == (start .. block_size - 1) \ (start + n .. block_size - 1)

(* The rows of the three tables of layers for a number of bits.            *)

next_power_of_2(size) == Min({p \in {2^i : i \in 0 .. 5} : p >= size})
NumLayers(block, size) == Min({l \in 1 .. 5 : block^l >= next_power_of_2(size)})
NumBlocks(block, size, layer) ==
    Max({1, next_power_of_2(size) \div block^(NumLayers(block, size) - layer)})
Shape(block, size) ==
    [block |-> block, size |-> size, leaf |-> NumLayers(block, size) - 1,
     blocks |-> [l \in 0 .. NumLayers(block, size) - 1 |-> NumBlocks(block, size, l)],
     above |-> [l \in 0 .. NumLayers(block, size) |->
                   MapThenSumSet(LAMBDA k : NumBlocks(block, size, k), 0 .. l - 1)]]

Leaf == shape.leaf
Above(layer) == shape.above[layer]
num_all_blocks == Above(Leaf + 1)

\* The bit of a layer, and its block, that stands for bit p of the leaf layer.
BitIn(layer, p) == p \div block_size^(Leaf - layer)
BlockIn(layer, p) == Above(layer) + BitIn(layer, p) \div block_size

-----------------------------------------------------------------------------
get(p) == p % block_size \in array[IF shape.size <= block_size THEN 0 ELSE BlockIn(Leaf, p)]
Marked == IF array = None THEN {} ELSE {p \in 0 .. shape.size - 1 : get(p)}

\* From the root: the first false bit of a block is the block to look at next.
find_in_multilayers(a) ==
    LET bit_pos[layer \in 0 .. Leaf + 1] ==
            IF layer = 0 THEN 0
            ELSE LET pos == bit_pos[layer - 1] IN
                 find_first_false_bit_in_block(a[Above(layer - 1) + pos]) + block_size * pos
    IN  bit_pos[Leaf + 1]

WithBit(a, layer, p) == a[BlockIn(layer, p)] \cup {BitIn(layer, p) % block_size}

\* Mutant: every layer is told, full or not.
set_everywhere(a, p) ==
    [b \in DOMAIN a |->
        IF \E layer \in 0 .. Leaf : b = BlockIn(layer, p)
        THEN WithBit(a, CHOOSE layer \in 0 .. Leaf : b = BlockIn(layer, p), p)
        ELSE a[b]]

\* A layer hears of the bit when the block below became full, or was already.
set_in_multilayers(a, p) ==
    [b \in DOMAIN a |->
        IF \E layer \in 0 .. Leaf : /\ b = BlockIn(layer, p)
                                    /\ \A below \in layer + 1 .. Leaf : full_block(WithBit(a, below, p))
        THEN WithBit(a, CHOOSE layer \in 0 .. Leaf : b = BlockIn(layer, p), p)
        ELSE a[b]]

\* Mutant: the index layers are not told.
reset_leaf_only(a, p) ==
    [a EXCEPT ![BlockIn(Leaf, p)] = @ \ {p % block_size}]

\* A layer hears of it when the block below was full.
reset_bit_in_multilayers(a, p) ==
    [b \in DOMAIN a |->
        IF \E layer \in 0 .. Leaf : /\ b = BlockIn(layer, p)
                                    /\ \A below \in layer + 1 .. Leaf : full_block(a[BlockIn(below, p)])
        THEN a[b] \ {BitIn(CHOOSE layer \in 0 .. Leaf : b = BlockIn(layer, p), p) % block_size}
        ELSE a[b]]

-----------------------------------------------------------------------------
(* Many bits at once, from bit p on: an empty block is filled by a mask, the  *)
(* false bits of another one are taken singly.                             *)

RECURSIVE SetEach(_, _)
SetEach(a, ps) == IF ps = <<>> THEN a ELSE SetEach(set_in_multilayers(a, Head(ps)), Tail(ps))

\* Mutant: the next block is searched although it is full.
NextBitUnchecked(a, block) ==
    (block + 1) * block_size + find_first_false_bit_in_block(a[Above(Leaf) + block + 1] \ {0})

NextBit(a, block) ==
    IF full_block(a[Above(Leaf) + block + 1])
    THEN find_in_multilayers(a)
    ELSE (block + 1) * block_size + find_first_false_bit_in_block(a[Above(Leaf) + block + 1])

RECURSIVE FindMany(_, _, _)
FindMany(a, p, n) ==
    LET block == p \div block_size
        old == a[Above(Leaf) + block]
        last == Min({p + n, (block + 1) * block_size}) - 1
        taken == IF empty_block(old) THEN [i \in 1 .. last - p + 1 |-> p + i - 1]
                 ELSE LET free == SetToSortSeq({q \in p .. (block + 1) * block_size - 1 :
                                                   q % block_size \notin old}, <)
                      IN SubSeq(free, 1, Min({n, Len(free)}))
        filled == IF empty_block(old)
                  THEN set_in_multilayers([a EXCEPT ![Above(Leaf) + block] = generate_mask(0, last - p + 1)],
                                          last)
                  ELSE SetEach(a, taken)
    IN  IF Len(taken) = n THEN filled
        ELSE FindMany(filled, NextBit(filled, block), n - Len(taken))

-----------------------------------------------------------------------------
(* The calls of the chunk directory, which counts the bits itself: it asks    *)
(* for no more than there are and gives back what it has.                  *)

Init ==
    /\ \E s \in Shapes : shape = Shape(s.block, s.size)
    /\ array = None /\ count = 0 /\ saved = None

\* Either of the two ways to hold the bits: one block in place, or the layers.
Blank == [b \in 0 .. (IF shape.size <= block_size THEN 1 ELSE num_all_blocks) - 1 |-> {}]

allocate ==
    /\ array = None
    /\ array' \in {Blank} \cup (IF shape.size <= block_size THEN {} ELSE {None})
    /\ UNCHANGED <<shape, count, saved>>

free ==
    /\ array # None /\ saved = None
    /\ array' = None /\ count' = 0
    /\ UNCHANGED <<shape, saved>>

find_and_set ==
    /\ array # None /\ saved = None /\ count < shape.size
    /\ LET p == IF shape.size <= block_size
                THEN find_first_false_bit_in_block(array[0])
                ELSE find_in_multilayers(array)
       IN  /\ array' = IF shape.size <= block_size
                       THEN [array EXCEPT ![0] = @ \cup {p}]
                       ELSE set_in_multilayers(array, p)
           /\ count' = count + 1
    /\ UNCHANGED <<shape, saved>>

RECURSIVE FindManyInBlock(_, _)
FindManyInBlock(b, n) ==
    IF n = 0 THEN b
    ELSE FindManyInBlock(b \cup {find_first_false_bit_in_block(b)}, n - 1)

find_and_set_many(n) ==
    /\ array # None /\ saved = None /\ n <= shape.size - count
    /\ LET r == IF shape.size <= block_size
                THEN [array EXCEPT ![0] = FindManyInBlock(@, n)]
                ELSE FindMany(array, find_in_multilayers(array), n)
       IN  array' = r
    /\ count' = count + n
    /\ UNCHANGED <<shape, saved>>

reset(p) ==
    /\ p \in Marked
    /\ array' = IF shape.size <= block_size
                THEN [array EXCEPT ![0] = @ \ {p}]
                ELSE reset_bit_in_multilayers(array, p)
    /\ count' = count - 1
    /\ UNCHANGED <<shape, saved>>

\* The number that std::to_string writes for a block, and back.
Number(b) == MapThenSumSet(LAMBDA i : 2^(block_size - 1 - i), b)
BlockOf(n) == {i \in Bits : (n \div 2^(block_size - 1 - i)) % 2 = 1}

\* At the close of the store, after which the bitset is gone.
serialize ==
    /\ array # None /\ saved = None
    /\ saved' = [numbers |-> [i \in 1 .. Cardinality(DOMAIN array) |-> Number(array[i - 1])],
                 count |-> count]
    /\ array' = None /\ count' = 0
    /\ UNCHANGED shape

\* When the store is opened, into a bitset just allocated.
deserialize ==
    /\ array = Blank /\ saved # None
    /\ Len(saved.numbers) = Cardinality(DOMAIN array)
    /\ array' = [b \in DOMAIN array |-> BlockOf(saved.numbers[b + 1])]
    /\ count' = saved.count
    /\ saved' = None
    /\ UNCHANGED shape

Next ==
    \/ allocate \/ free \/ find_and_set \/ serialize \/ deserialize
    \/ \E n \in 2 .. MaxMany : find_and_set_many(n)
    \/ \E p \in Marked : reset(p)

Spec == Init /\ [][Next]_vars

-----------------------------------------------------------------------------
\* A bit of an index layer is true exactly when the block it stands for is
\* full: otherwise find_in_multilayers would end in a full block or miss a slot.
IndexExact ==
    array # None /\ shape.size > block_size =>
        \A layer \in 0 .. Leaf - 1 : \A b \in 0 .. shape.blocks[layer + 1] - 1 :
            (b % block_size \in array[Above(layer) + b \div block_size])
                <=> full_block(array[Above(layer + 1) + b])

\* As many bits are true as the caller counts, also after writing and loading:
\* the caller decides by its count whether there is a bit to ask for, and
\* find_and_set has no answer when there is none.
BitsAreCounted == Cardinality(Marked) = count

\* find_in_multilayers finds the lowest false bit there is, whatever was given
\* back before; so find_and_set never takes a slot twice.
LowestFound ==
    array # None /\ shape.size > block_size /\ count < shape.size =>
        find_in_multilayers(array) = Min((0 .. shape.size - 1) \ Marked)

\* The three together, in every state between two calls.
LayersAgree == IndexExact /\ BitsAreCounted /\ LowestFound
=============================================================================
