--------------------------- MODULE ObjectDirectory ---------------------------
(***************************************************************************)
(* attributed_object_directory.hpp: a list of entries and two hash tables  *)
(* that find the list node of an offset or a name; its file; and the       *)
(* attribute accessor of a closed store (object_attribute_accessor.hpp),   *)
(* which loads the file, changes a description and writes the file again.  *)
(*                                                                         *)
(* List nodes are memory: an index entry may refer to a node that is gone  *)
(* or that belongs to another directory.                                   *)
(***************************************************************************)
EXTENDS Integers, Sequences, Functions

CONSTANTS
    Directories, Names, Offsets, Descriptions, NoName,
    Nodes,        \* list nodes
    None          \* no node, no entry, no file

entry_type == [name : Names \cup {NoName}, offset : Offsets, description : Descriptions]

ASSUME NameAssumption == NoName \notin Names
ASSUME NodeAssumption == None \notin Nodes \cup entry_type \cup Seq(entry_type)
ASSUME FileAssumption == "file" \notin Directories

VARIABLES
    dir,      \* of each directory: list, offset index, name index
    node,     \* the entry in each node, or None
    file,     \* what serialize wrote last: a sequence of entries, or None
    damaged   \* directories in which an insert threw; "file" if one wrote the file

vars == <<dir, node, file, damaged>>

EmptyMap == [x \in {} |-> None]
EmptyDirectory == [list |-> <<>>, offset |-> EmptyMap, name |-> EmptyMap]

Init ==
    /\ dir = [d \in Directories |-> EmptyDirectory]
    /\ node = [n \in Nodes |-> None]
    /\ file = None
    /\ damaged = {}

Free == {n \in Nodes : node[n] = None}

With(f, k, v) == [x \in DOMAIN f \cup {k} |-> IF x = k THEN v ELSE f[x]]
Without(f, k) == Restrict(f, DOMAIN f \ {k})

-----------------------------------------------------------------------------
(* The directory.                                                          *)

\* Mutant: the name is not indexed.
LinkedUnnamed(r, n, e, threw) ==
    [list |-> Append(r.list, n), offset |-> With(r.offset, e.offset, n), name |-> r.name]

\* The three emplace calls of insert, up to the one that throws.
Linked(r, n, e, threw) ==
    [list |-> Append(r.list, n),
     offset |-> IF threw = "offset" THEN r.offset ELSE With(r.offset, e.offset, n),
     name |-> IF threw # "none" \/ e.name = NoName THEN r.name
              ELSE With(r.name, e.name, n)]

\* Mutant: an entry with the same offset gets the new name.
InsertRenames(d, e, threw) ==
    LET r == dir[d] IN
    /\ e.name \notin DOMAIN r.name
    /\ e.name # NoName \/ e.offset \notin DOMAIN r.offset
    /\ threw = "none"
    /\ \E n \in IF e.offset \in DOMAIN r.offset THEN {r.offset[e.offset]} ELSE Free :
        /\ node' = [node EXCEPT ![n] = e]
        /\ dir' = [dir EXCEPT ![d] =
               IF e.offset \in DOMAIN r.offset
               THEN [@ EXCEPT !.name = With(Without(@, node[n].name), e.name, n)]
               ELSE Linked(@, n, e, threw)]
    /\ UNCHANGED <<file, damaged>>

\* insert; callers respect its asserts: name and offset are both in use or
\* both new.  When the second or the third emplace throws, the node stays in
\* the list.
insert(d, e, threw) ==
    LET r == dir[d] IN
    /\ e.name # NoName => (e.name \in DOMAIN r.name <=> e.offset \in DOMAIN r.offset)
    /\ e.offset \notin DOMAIN r.offset
    /\ threw = "name" => e.name # NoName
    /\ \E n \in Free :
        /\ node' = [node EXCEPT ![n] = e]
        /\ dir' = [dir EXCEPT ![d] = Linked(r, n, e, threw)]
    /\ damaged' = IF threw = "none" THEN damaged ELSE damaged \cup {d}
    /\ UNCHANGED file

\* The node that find returns for a name or an offset, or None for end().
FindName(d, x) == IF x \in DOMAIN dir[d].name THEN dir[d].name[x] ELSE None
FindOffset(d, o) == IF o \in DOMAIN dir[d].offset THEN dir[d].offset[o] ELSE None

\* set_description at a node of the list: the entry is looked up again
\* in the offset index.
SetDescription(d, n, x) ==
    LET found == FindOffset(d, node[n].offset) IN
    /\ found # None
    /\ node' = [node EXCEPT ![found] = [@ EXCEPT !.description = x]]
    /\ UNCHANGED dir

set_description(d, i, x) ==
    /\ i \in DOMAIN dir[d].list
    /\ SetDescription(d, dir[d].list[i], x)
    /\ UNCHANGED <<file, damaged>>

\* The list without the node at position i.
ListErase(list, i) == SubSeq(list, 1, i - 1) \o SubSeq(list, i + 1, Len(list))

\* The three erase calls, for the list node at position i.
Unlinked(r, i) ==
    LET e == node[r.list[i]] IN
    [list |-> ListErase(r.list, i), offset |-> Without(r.offset, e.offset),
     name |-> Without(r.name, e.name)]

\* erase by iterator, which erase by name and by offset look up.
EraseAt(d, i) ==
    /\ i \in DOMAIN dir[d].list
    /\ dir' = [dir EXCEPT ![d] = Unlinked(dir[d], i)]
    /\ node' = [node EXCEPT ![dir[d].list[i]] = None]
    /\ UNCHANGED <<file, damaged>>

EraseName(d, x) ==
    \E i \in DOMAIN dir[d].list : dir[d].list[i] = FindName(d, x) /\ EraseAt(d, i)
EraseOffset(d, o) ==
    \E i \in DOMAIN dir[d].list : dir[d].list[i] = FindOffset(d, o) /\ EraseAt(d, i)

\* clear, and the destructor.
clear(d) ==
    /\ dir' = [dir EXCEPT ![d] = EmptyDirectory]
    /\ node' = [n \in Nodes |-> IF n \in Range(dir[d].list) THEN None ELSE node[n]]
    /\ damaged' = damaged \ {d}
    /\ UNCHANGED file

Written(d) == IF d \in damaged THEN damaged \cup {"file"} ELSE damaged \ {"file"}

Entries(r) == [i \in DOMAIN r.list |-> node[r.list[i]]]

\* Mutant: the entries are added to the file.
SerializeAppends(d, ok) ==
    /\ file' = IF ~ok THEN None
               ELSE IF file # None /\ Len(file \o Entries(dir[d])) <= 3
               THEN file \o Entries(dir[d]) ELSE Entries(dir[d])
    /\ UNCHANGED <<dir, node, damaged>>

\* priv_serialize_throw: the list, in its order; writing may fail half-way.
serialize(d, ok) ==
    /\ file' = IF ok THEN Entries(dir[d]) ELSE None
    /\ damaged' = Written(d)
    /\ UNCHANGED <<dir, node>>

\* priv_deserialize_throw, into a new directory: it stops at an entry whose
\* name or offset it has already, and the caller drops the directory.
Loadable(es) == \A i, j \in DOMAIN es :
                    i < j => es[i].offset # es[j].offset
                             /\ (es[i].name = NoName \/ es[i].name # es[j].name)

\* The directory whose list nodes ns hold the entries es.
AtOffset(es, o) == CHOOSE i \in DOMAIN es : es[i].offset = o
AtName(es, x) == CHOOSE i \in DOMAIN es : es[i].name = x
AtNode(ns, n) == CHOOSE i \in DOMAIN ns : ns[i] = n

Loaded(es, ns) ==
    [list |-> ns,
     offset |-> [o \in {es[i].offset : i \in DOMAIN es} |-> ns[AtOffset(es, o)]],
     name |-> [x \in {es[i].name : i \in DOMAIN es} \ {NoName} |-> ns[AtName(es, x)]]]

deserialize(d) ==
    /\ dir[d] = EmptyDirectory
    /\ file # None /\ Loadable(file)
    /\ \E ns \in Injection(DOMAIN file, Free) :
        /\ node' = [n \in Nodes |->
                       IF n \in Range(ns) THEN file[AtNode(ns, n)] ELSE node[n]]
        /\ dir' = [dir EXCEPT ![d] = Loaded(file, ns)]
    /\ damaged' = damaged \ {d}
    /\ UNCHANGED file

\* The accessors' set_description at a node: the description, then the whole
\* file.
AccessorSetDescription(d, n, x, ok) ==
    /\ file # None
    /\ SetDescription(d, n, x)
    /\ file' = IF ok THEN [j \in DOMAIN dir[d].list |-> node'[dir[d].list[j]]] ELSE None
    /\ damaged' = Written(d)

\* Named and unique objects are looked up by their name, anonymous ones are
\* visited with an iterator.
NamedAccessorSet(d, name, x, ok) ==
    /\ FindName(d, name) # None
    /\ AccessorSetDescription(d, FindName(d, name), x, ok)
AnonymousAccessorSet(d, i, x, ok) ==
    /\ i \in DOMAIN dir[d].list /\ node[dir[d].list[i]].name = NoName
    /\ AccessorSetDescription(d, dir[d].list[i], x, ok)

Next ==
    \E d \in Directories :
        \/ \E e \in entry_type, threw \in {"none", "offset", "name"} : insert(d, e, threw)
        \/ \E i \in DOMAIN dir[d].list :
               \/ EraseAt(d, i)
               \/ \E x \in Descriptions : set_description(d, i, x)
               \/ \E x \in Descriptions, ok \in BOOLEAN : AnonymousAccessorSet(d, i, x, ok)
        \/ \E name \in Names, x \in Descriptions, ok \in BOOLEAN : NamedAccessorSet(d, name, x, ok)
        \/ \E x \in Names : EraseName(d, x)
        \/ \E o \in Offsets : EraseOffset(d, o)
        \/ clear(d) \/ deserialize(d)
        \/ \E ok \in BOOLEAN : serialize(d, ok)

Spec == Init /\ [][Next]_vars

-----------------------------------------------------------------------------
(* Properties.                                                             *)

\* "Following tables hold the index of the corresponding entry of each key":
\* an offset and a name lead to the node of the directory's own list that has
\* them, and every node of the list can be found by both, unless an insert ran
\* out of memory, also after loading, erasing and clearing.
IndexesExact ==
    \A d \in Directories \ damaged :
        LET r == dir[d] IN
        /\ \A o \in DOMAIN r.offset :
            r.offset[o] \in Range(r.list) /\ node[r.offset[o]].offset = o
        /\ \A x \in DOMAIN r.name :
            r.name[x] \in Range(r.list) /\ node[r.name[x]].name = x
        /\ \A n \in Range(r.list) :
            /\ node[n].offset \in DOMAIN r.offset
            /\ node[n].name # NoName => node[n].name \in DOMAIN r.name

\* A file that was written completely can always be loaded again: serialize
\* never writes two entries that deserialize would take for one.
WrittenCanBeLoaded == file # None /\ "file" \notin damaged => Loadable(file)

Held == [d \in Directories |-> IF d \in damaged THEN {} ELSE Range(Entries(dir[d]))]

WrittenSet == IF file = None \/ "file" \in damaged THEN None ELSE Range(file)

Sets == INSTANCE ObjectEntries WITH entries <- Held, written <- WrittenSet

\* The directory with its list, indexes and file implements the set of entries:
\* insert refuses an offset that is there, every erase removes exactly the
\* entry it was asked for, what is written is what is loaded, and no other
\* directory changes.  Nothing is promised of a directory in which an insert
\* threw, and of its file.
ImplementsEntries == Sets!EntriesSpec

-----------------------------------------------------------------------------
(* The inductive invariant of the proofs.                                  *)

Maps(K) == UNION {[S -> Nodes] : S \in SUBSET K}

TypeOK ==
    /\ dir \in [Directories -> [list : Seq(Nodes), offset : Maps(Offsets), name : Maps(Names)]]
    /\ node \in [Nodes -> entry_type \cup {None}]
    /\ file \in Seq(entry_type) \cup {None}

\* A node is in one place of one list, and holds an entry.
NodesApart ==
    /\ \A d \in Directories :
          /\ IsInjective(dir[d].list)
          /\ \A n \in Range(dir[d].list) : node[n] # None
    /\ \A c, d \in Directories : c # d => Range(dir[c].list) \cap Range(dir[d].list) = {}

\* An index leads to nodes of the list that have the key, also after an insert
\* threw.
IndexesSound(r) ==
    /\ \A o \in DOMAIN r.offset :
          r.offset[o] \in Range(r.list) /\ node[r.offset[o]].offset = o
    /\ \A x \in DOMAIN r.name :
          r.name[x] \in Range(r.list) /\ node[r.name[x]].name = x

\* The indexes lead to every node of the list.
IndexesComplete(r) ==
    \A n \in Range(r.list) :
        /\ node[n].offset \in DOMAIN r.offset /\ r.offset[node[n].offset] = n
        /\ node[n].name # NoName => node[n].name \in DOMAIN r.name /\ r.name[node[n].name] = n

IndexesInv ==
    /\ TypeOK /\ NodesApart
    /\ \A d \in Directories : IndexesSound(dir[d])
    /\ \A d \in Directories \ damaged : IndexesComplete(dir[d])
    /\ WrittenCanBeLoaded
=============================================================================
