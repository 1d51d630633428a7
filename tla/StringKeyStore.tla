--------------------------- MODULE StringKeyStore ---------------------------
(***************************************************************************)
(* The key-value store with string keys, container/string_key_store.hpp: a *)
(* multimap from internal IDs to items.  The ID of a key is its hash or,   *)
(* when other keys have taken that one, the next ID that is free; a lookup *)
(* probes as far as the longest distance an insertion ever went.           *)
(***************************************************************************)
EXTENDS Integers, SequencesExt

CONSTANTS
    Hash,       \* murmur_hash_64a of each key
    Values, DefaultValue,
    IdBits,     \* width of internal_id_type
    MaxItems    \* bound: items in the store

Keys == DOMAIN Hash
k_max_internal_id == 2 ^ IdBits - 1
Ids == 0 .. k_max_internal_id - 1

VARIABLES
    m_unique,                  \* keys are inserted uniquely
    m_map,                     \* ID -> the items under it
    m_max_id_probe_distance,
    gap,                       \* history: an erase emptied an ID that the probes
                               \* for another item pass over
    near                       \* history: the store was made from another one,
                               \* without its longest distance

vars == <<m_unique, m_map, m_max_id_probe_distance, gap, near>>

Store == [map |-> m_map, far |-> m_max_id_probe_distance]
Becomes(S) == m_map' = S.map /\ m_max_id_probe_distance' = S.far

Empty == [map |-> [i \in Ids |-> <<>>], far |-> 0]

Init == /\ m_unique \in BOOLEAN
        /\ m_map = Empty.map /\ m_max_id_probe_distance = Empty.far
        /\ gap = FALSE /\ near = FALSE

priv_increment_internal_id(id) == ((id + 1) % 2 ^ IdBits) % k_max_internal_id

\* The largest hash value is kept for `no such key'.
priv_hash_key(k) == IF Hash[k] = k_max_internal_id
                    THEN priv_increment_internal_id(Hash[k])
                    ELSE Hash[k]

\* The ID at a distance from the hash of a key, by repeated increments.
IdAt(k, d) == (priv_hash_key(k) + d) % k_max_internal_id

\* priv_find_internal_id: stop at a free ID or at the key.  The items under one
\* ID have one key, the first one's is compared.
priv_find_internal_id(S, k) ==
    LET Used(d) == S.map[IdAt(k, d)] # <<>>
        Hit(d) == Used(d) /\ Head(S.map[IdAt(k, d)]).key = k
        hits == {d \in 0 .. S.far : Hit(d) /\ \A e \in 0 .. d - 1 : Used(e)}
    IN  IF hits = {} THEN k_max_internal_id ELSE IdAt(k, Min(hits))

\* Mutant: the distance is not remembered.
GenerateForgets(S, k) ==
    LET d == Min({e \in Ids : S.map[IdAt(k, e)] = <<>>})
    IN  [id |-> IdAt(k, d), far |-> S.far]

priv_generate_internal_id(S, k) ==
    LET d == Min({e \in Ids : S.map[IdAt(k, e)] = <<>>})
    IN  [id |-> IdAt(k, d), far |-> Max({d, S.far})]

priv_find_or_generate_internal_id(S, k) ==
    LET id == priv_find_internal_id(S, k)
    IN  IF id # k_max_internal_id THEN [id |-> id, far |-> S.far]
        ELSE priv_generate_internal_id(S, k)

count(S, k) ==
    LET id == priv_find_internal_id(S, k)
    IN  IF id = k_max_internal_id THEN 0 ELSE Len(S.map[id])

\* insert with a value: a unique store updates the item that is there.
Inserted(S, k, v) ==
    LET g == priv_find_or_generate_internal_id(S, k)
        item == [key |-> k, value |-> v]
    IN  [map |-> [S.map EXCEPT ![g.id] =
                    IF m_unique /\ Len(@) = 1 THEN <<item>> ELSE Append(@, item)],
         far |-> g.far]

\* insert without a value: a unique store refuses the key.
InsertedKey(S, k) ==
    LET g == priv_find_or_generate_internal_id(S, k)
    IN  IF m_unique /\ Len(S.map[g.id]) = 1 THEN [S EXCEPT !.far = g.far]
        ELSE Inserted(S, k, DefaultValue)

\* All items, in the order of IDs.
Items(S) == FlattenSeq([i \in 1 .. k_max_internal_id |-> S.map[i - 1]])
Full == Len(Items(Store)) >= MaxItems

insert(k, v) == ~Full /\ Becomes(Inserted(Store, k, v)) /\ UNCHANGED <<m_unique, gap, near>>

insert_key(k) == ~Full /\ Becomes(InsertedKey(Store, k)) /\ UNCHANGED <<m_unique, gap, near>>

\* The probes for an item at ID j pass over ID i.
PassesOver(k, j, i) ==
    \E d \in Ids : IdAt(k, d) = i /\ \A e \in 0 .. d : IdAt(k, e) # j

BreaksProbes(S, i) ==
    /\ S.map[i] = <<>>
    /\ \E j \in Ids \ {i} : S.map[j] # <<>> /\ PassesOver(Head(S.map[j]).key, j, i)

Without(i, items) == [Store EXCEPT !.map[i] = items]

\* erase(key): every item under the key's ID.
erase(k) ==
    LET id == priv_find_internal_id(Store, k) IN
    /\ id # k_max_internal_id
    /\ Becomes(Without(id, <<>>))
    /\ gap' = (gap \/ BreaksProbes(Without(id, <<>>), id))
    /\ UNCHANGED <<m_unique, near>>

\* erase(locator): one item.
EraseAt(i, n) ==
    LET S == Without(i, RemoveAt(m_map[i], n)) IN
    /\ n \in DOMAIN m_map[i]
    /\ Becomes(S)
    /\ gap' = (gap \/ BreaksProbes(S, i))
    /\ UNCHANGED <<m_unique, near>>

\* value(locator) gives write access.
Assign(i, n, v) ==
    /\ n \in DOMAIN m_map[i]
    /\ m_map' = [m_map EXCEPT ![i][n].value = v]
    /\ UNCHANGED <<m_unique, m_max_id_probe_distance, gap, near>>

clear == Becomes(Empty) /\ gap' = FALSE /\ near' = FALSE /\ UNCHANGED m_unique

\* The allocator-extended copy and move constructors: the program goes on with
\* the store they make, whose longest distance is 0.
Extended ==
    /\ Becomes([Store EXCEPT !.far = 0])
    /\ near' = (near \/ m_max_id_probe_distance > 0)
    /\ UNCHANGED <<m_unique, gap>>

\* rehash: every item is inserted into an empty map, in the order in which the
\* old one is iterated; the longest distance stays.
rehash(order) ==
    LET old == Items(Store) IN
    /\ order \in [DOMAIN old -> DOMAIN old] /\ IsInjective(order)
    /\ Becomes(FoldLeft(LAMBDA S, n : Inserted(S, old[n].key, old[n].value),
                        [Empty EXCEPT !.far = m_max_id_probe_distance],
                        order))
    /\ gap' = FALSE /\ near' = FALSE
    /\ UNCHANGED m_unique

Next ==
    \/ \E k \in Keys : insert_key(k) \/ erase(k) \/ \E v \in Values : insert(k, v)
    \/ \E i \in Ids, n \in 1 .. MaxItems :
          EraseAt(i, n) \/ \E v \in Values : Assign(i, n, v)
    \/ clear \/ Extended
    \/ \E order \in [1 .. Len(Items(Store)) -> 1 .. MaxItems] : rehash(order)

Spec == Init /\ [][Next]_vars

-----------------------------------------------------------------------------
(* Properties.                                                             *)

Found(k, i) == priv_find_internal_id(Store, k) = i

\* find, count and erase reach every item by its key.
KeysFound == \A i \in Ids : \A n \in DOMAIN m_map[i] : Found(m_map[i][n].key, i)

\* After erase as well, in a store that was not made from another one ("Counts
\* the number of items associated with the key", "Removes all elements with the
\* key equivalent to key").
KeysFoundAfterErase == ~near => KeysFound

\* They do as long as no erase emptied an ID that the probes for another key
\* pass over, and the store was not made by an allocator-extended constructor;
\* and again after rehash() or clear().  Then a unique store has one item for a
\* key.
KeysFoundUnlessGap ==
    ~gap /\ ~near =>
        /\ KeysFound
        /\ m_unique => \A k \in Keys : count(Store, k) <= 1
=============================================================================
