---------------------------- MODULE IndexedObject ----------------------------
(***************************************************************************)
(* The JSON object with an index, json/details/indexed_object.hpp: pairs   *)
(* in the order of insertion, and a multimap from the hash of a key to the *)
(* position of its pair.                                                   *)
(***************************************************************************)
EXTENDS Integers, FiniteSets, SequencesExt

CONSTANTS
    Hash,       \* hash_key of each key
    None

Keys == DOMAIN Hash

VARIABLES
    m_value_storage,   \* the pairs, here their keys
    m_index_table      \* the pairs of a hash and a position, from 1

vars == <<m_value_storage, m_index_table>>

Init == m_value_storage = <<>> /\ m_index_table = {}

equal_range(hash) == {e \in m_index_table : e[1] = hash}

\* None is max_size(), not found.
priv_locate_value(key) ==
    LET hits == {e \in equal_range(Hash[key]) :
                    e[2] \in DOMAIN m_value_storage /\ m_value_storage[e[2]] = key}
    IN  IF hits = {} THEN None ELSE (CHOOSE e \in hits : TRUE)[2]

contains(key) == priv_locate_value(key) # None

\* operator[] of a key that is not there; for one that is, nothing changes.
priv_emplace_value(key) ==
    /\ ~contains(key)
    /\ m_value_storage' = Append(m_value_storage, key)
    /\ m_index_table' = m_index_table \cup {<<Hash[key], Len(m_value_storage) + 1>>}

\* Mutant: the pairs behind keep their positions.
EraseInPlace(pos) ==
    /\ pos \in DOMAIN m_value_storage
    /\ m_index_table' = m_index_table \ {<<Hash[m_value_storage[pos]], pos>>}
    /\ m_value_storage' = RemoveAt(m_value_storage, pos)

\* The pair leaves the index, those behind it move forward.
priv_erase(pos) ==
    /\ pos \in DOMAIN m_value_storage
    /\ m_index_table' = {<<e[1], IF e[2] > pos THEN e[2] - 1 ELSE e[2]>> :
                            e \in m_index_table \ {<<Hash[m_value_storage[pos]], pos>>}}
    /\ m_value_storage' = RemoveAt(m_value_storage, pos)

\* erase(key): erase(find(key)), nothing at end().
erase(key) == contains(key) /\ priv_erase(priv_locate_value(key))

Next ==
    \/ \E key \in Keys : priv_emplace_value(key) \/ erase(key)
    \/ \E pos \in 1 .. Cardinality(Keys) : priv_erase(pos)

Spec == Init /\ [][Next]_vars

-----------------------------------------------------------------------------
\* After every mix of insertions and erasures each pair is found by its key at
\* its place, a key has one pair, and the index holds nothing else.
PairsLocated ==
    /\ Cardinality(m_index_table) = Len(m_value_storage)
    /\ \A i \in DOMAIN m_value_storage : priv_locate_value(m_value_storage[i]) = i
=============================================================================
