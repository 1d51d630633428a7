------------------------------- MODULE Bitset -------------------------------
(***************************************************************************)
(* The bit tables of detail/bitset.hpp, static_bitset and bitset: bits in  *)
(* blocks of a fixed width, with ranges set and reset through masks for    *)
(* the first, the middle and the last block.  A block is the set of        *)
(* positions of its true bits, from the most significant one.              *)
(***************************************************************************)
EXTENDS Naturals, FiniteSets

CONSTANTS
    Width,       \* bits in a block
    MaxBits,     \* bound on the bits of a table
    Operands     \* sets of bits that the table is combined with

VARIABLES
    table,       \* m_table: block number -> block
    num_bit,     \* the bits the user asked for
    bits         \* the bits that are true, by the definition of each call

vars == <<table, num_bit, bits>>

-----------------------------------------------------------------------------
Block == 0 .. Width - 1
global_index(idx) == idx \div Width
local_index(idx) == idx % Width
num_blocks(n) == IF n = 0 THEN 0 ELSE (n - 1) \div Width + 1
full_block(b) == b = Block

get(t, idx) == local_index(idx) \in t[global_index(idx)]

\* Mutant: the mask ends one bit early.
MaskShort(start, n) == (start .. Width - 1) \ (start + n - 1 .. Width - 1)

\* All ones from start on, less all ones from start + n on.
generate_mask(start, n) == (start .. Width - 1) \ (start + n .. Width - 1)

Updated(b, mask, set_mode) == IF set_mode THEN b \cup mask ELSE b \ mask

\* One block, or: the end of the first, all of those between, the start of the last.
update_n_bits(t, start, n, set_mode) ==
    LET head == global_index(start)
        tail == global_index(start + n - 1)
    IN  IF local_index(start) + n <= Width
        THEN [t EXCEPT ![head] = Updated(@, generate_mask(local_index(start), n), set_mode)]
        ELSE [b \in DOMAIN t |->
                CASE b = head -> Updated(t[b], generate_mask(local_index(start), Width - local_index(start)),
                                         set_mode)
                  [] b \in head + 1 .. tail - 1 -> IF set_mode THEN Block ELSE {}
                  [] b = tail -> Updated(t[b], generate_mask(0, local_index(start + n - 1) + 1), set_mode)
                  [] OTHER -> t[b]]

\* The table of a set of bits.
Table(n, bs) == [b \in 0 .. n - 1 |-> {i \in Block : b * Width + i \in bs}]
Size == Cardinality(DOMAIN table)

-----------------------------------------------------------------------------
\* bitset(num_bit) makes as many blocks as there are bits, static_bitset and
\* resize() as many as the bits need.
Init ==
    /\ num_bit \in 1 .. MaxBits
    /\ table \in {Table(num_bit, {}), Table(num_blocks(num_bit), {})}
    /\ bits = {}

set(idx) ==
    /\ table' = [table EXCEPT ![global_index(idx)] = @ \cup {local_index(idx)}]
    /\ bits' = bits \cup {idx}
    /\ UNCHANGED num_bit

reset(idx) ==
    /\ table' = [table EXCEPT ![global_index(idx)] = @ \ {local_index(idx)}]
    /\ bits' = bits \ {idx}
    /\ UNCHANGED num_bit

set_n_bits(idx, n) ==
    /\ table' = update_n_bits(table, idx, n, TRUE)
    /\ bits' = bits \cup (idx .. idx + n - 1)
    /\ UNCHANGED num_bit

reset_n_bits(idx, n) ==
    /\ table' = update_n_bits(table, idx, n, FALSE)
    /\ bits' = bits \ (idx .. idx + n - 1)
    /\ UNCHANGED num_bit

\* operator&= and |= with a table of the same size
Intersect(other) ==
    /\ table' = [b \in DOMAIN table |-> table[b] \cap Table(Size, other)[b]]
    /\ bits' = bits \cap other
    /\ UNCHANGED num_bit

Unite(other) ==
    /\ table' = [b \in DOMAIN table |-> table[b] \cup Table(Size, other)[b]]
    /\ bits' = bits \cup {i \in other : i < Size * Width}
    /\ UNCHANGED num_bit

\* Whole blocks come and go: bits of the last block that are no longer asked
\* for keep their values.
resize(n) ==
    /\ num_bit' = n
    /\ table' = [b \in 0 .. num_blocks(n) - 1 |-> IF b \in DOMAIN table THEN table[b] ELSE {}]
    /\ bits' = {i \in bits : i < num_blocks(n) * Width}

reset_all ==
    /\ table' = [b \in DOMAIN table |-> {}] /\ bits' = {}
    /\ UNCHANGED num_bit

any == \E b \in DOMAIN table : table[b] # {}

Next ==
    \/ \E i \in 0 .. num_bit - 1 : set(i) \/ reset(i)
    \/ \E i \in 0 .. num_bit - 1 : \E n \in 1 .. num_bit - i : set_n_bits(i, n) \/ reset_n_bits(i, n)
    \/ \E o \in Operands : Intersect(o) \/ Unite(o)
    \/ \E n \in 1 .. MaxBits : resize(n)
    \/ reset_all

Spec == Init /\ [][Next]_vars

-----------------------------------------------------------------------------
\* Whatever is set, reset, filled by ranges that start and end inside blocks,
\* combined or resized, the table holds exactly the bits that should be true;
\* any() and the queries for single bits answer for them.
TableIsBits ==
    /\ \A i \in 0 .. Size * Width - 1 : get(table, i) <=> i \in bits
    /\ any <=> bits # {}
=============================================================================
