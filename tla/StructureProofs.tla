--------------------------- MODULE StructureProofs ---------------------------
(***************************************************************************)
(* Proofs about two structures that a kernel is built from.  For any       *)
(* directories, names, offsets and list nodes, the indexes of an           *)
(* ObjectDirectory are exact, what serialize writes can be loaded, and the *)
(* directory implements the set of entries of ObjectEntries.  For any      *)
(* block size, capacities and requests, and wherever a system call fails,  *)
(* an open SegmentStorage is mapped from files of full size.               *)
(***************************************************************************)
EXTENDS ObjectDirectory, SegmentStorage, TLAPS

-----------------------------------------------------------------------------
(* Lists and indexes.                                                      *)

\* An index is a function from some of the keys to nodes.
LEMMA MapIs ==
    ASSUME NEW K, NEW f
    PROVE  f \in Maps(K) <=> DOMAIN f \subseteq K /\ f \in [DOMAIN f -> Nodes]
BY Zenon DEF Maps

\* emplace of a key.
LEMMA WithIs ==
    ASSUME NEW K, NEW f \in Maps(K), NEW k \in K, NEW v \in Nodes
    PROVE  With(f, k, v) \in Maps(K)
<1>1. DOMAIN f \subseteq K /\ f \in [DOMAIN f -> Nodes]
  BY Zenon, MapIs
<1>2. DOMAIN With(f, k, v) = DOMAIN f \cup {k}
  BY Zenon DEF With
<1>3. With(f, k, v) \in [DOMAIN With(f, k, v) -> Nodes]
  BY Zenon, <1>1 DEF With
<1> QED BY ZenonT(60), <1>1, <1>2, <1>3, MapIs

\* erase of a key, which may not be there.
LEMMA WithoutIs ==
    ASSUME NEW K, NEW f \in Maps(K), NEW k
    PROVE  Without(f, k) \in Maps(K)
<1>1. DOMAIN f \subseteq K /\ f \in [DOMAIN f -> Nodes]
  BY Zenon, MapIs
<1>2. DOMAIN Without(f, k) = DOMAIN f \ {k}
  BY Zenon DEF Without, Restrict
<1>3. Without(f, k) \in [DOMAIN Without(f, k) -> Nodes]
  BY Zenon, <1>1 DEF Without, Restrict
<1> QED BY Zenon, <1>1, <1>2, <1>3, MapIs

\* What an empty index and an empty list are.
LEMMA EmptyIs ==
    /\ \A K : EmptyMap \in Maps(K) /\ DOMAIN EmptyMap = {}
    /\ EmptyDirectory.list = <<>> /\ EmptyDirectory.offset = EmptyMap
    /\ EmptyDirectory.name = EmptyMap
    /\ EmptyDirectory \in [list : Seq(Nodes), offset : Maps(Offsets), name : Maps(Names)]
    /\ Range(EmptyDirectory.list) = {} /\ IsInjective(EmptyDirectory.list)
<1>1. DOMAIN EmptyMap = {} /\ EmptyMap \in [DOMAIN EmptyMap -> Nodes]
  BY Zenon DEF EmptyMap
<1>2. \A K : EmptyMap \in Maps(K)
  BY Zenon, <1>1, MapIs 
<1>3. /\ EmptyDirectory.list = <<>> /\ EmptyDirectory.offset = EmptyMap
      /\ EmptyDirectory.name = EmptyMap
  BY Zenon DEF EmptyDirectory
<1>4. EmptyDirectory \in [list : Seq(Nodes), offset : Maps(Offsets), name : Maps(Names)]
  BY <1>2 DEF EmptyDirectory
<1>5. DOMAIN <<>> = {}
  OBVIOUS
<1>6. Range(EmptyDirectory.list) = {} /\ IsInjective(EmptyDirectory.list)
  BY Zenon, <1>3, <1>5 DEF Range, IsInjective
<1> QED BY Zenon, <1>1, <1>2, <1>3, <1>4, <1>6

\* A new node at the end of a list.
LEMMA AppendedList ==
    ASSUME NEW s \in Seq(Nodes), IsInjective(s), NEW n \in Nodes, n \notin Range(s)
    PROVE  /\ Append(s, n) \in Seq(Nodes)
           /\ Range(Append(s, n)) = Range(s) \cup {n}
           /\ IsInjective(Append(s, n))
<1>1. Append(s, n) \in Seq(Nodes) /\ Len(Append(s, n)) = Len(s) + 1
  OBVIOUS
<1>2. DOMAIN Append(s, n) = 1 .. Len(s) + 1 /\ DOMAIN s = 1 .. Len(s) /\ Len(s) \in Nat
  BY <1>1
<1>3. Append(s, n)[Len(s) + 1] = n /\ \A i \in 1 .. Len(s) : Append(s, n)[i] = s[i]
  OBVIOUS
<1>4. Range(Append(s, n)) = Range(s) \cup {n}
  BY <1>2, <1>3 DEF Range
<1>5. IsInjective(Append(s, n))
  BY <1>2, <1>3 DEF IsInjective, Range
<1> QED BY Zenon, <1>1, <1>4, <1>5

\* A list without the node at one of its positions.
LEMMA RemovedList ==
    ASSUME NEW s \in Seq(Nodes), IsInjective(s), NEW i \in DOMAIN s
    PROVE  /\ ListErase(s, i) \in Seq(Nodes)
           /\ Range(ListErase(s, i)) = Range(s) \ {s[i]}
           /\ IsInjective(ListErase(s, i))
<1>1. PICK a : a = SubSeq(s, 1, i - 1)
  BY Zenon 
<1>2. PICK b : b = SubSeq(s, i + 1, Len(s))
  BY Zenon 
<1>3. a \in Seq(Nodes) /\ Len(a) = i - 1 /\ \A j \in 1 .. i - 1 : a[j] = s[j]
  BY <1>1
<1>4. b \in Seq(Nodes) /\ Len(b) = Len(s) - i /\ \A j \in 1 .. Len(s) - i : b[j] = s[j + i]
  BY <1>2
<1>5. PICK r : r = ListErase(s, i)
  OBVIOUS
<1>6. r = a \o b
  BY Zenon, <1>1, <1>2, <1>5 DEF ListErase
<1>7. r \in Seq(Nodes) /\ Len(r) = Len(s) - 1
  BY <1>3, <1>4, <1>6
<1>8. ASSUME NEW j \in 1 .. Len(s) - 1  PROVE r[j] = IF j < i THEN s[j] ELSE s[j + 1]
  BY <1>3, <1>4, <1>6, SMTT(30)
<1>9. DOMAIN s = 1 .. Len(s) /\ Len(s) \in Nat /\ DOMAIN r = 1 .. Len(s) - 1
  BY <1>7
<1>10. Range(r) = Range(s) \ {s[i]}
  <2>1. ASSUME NEW j \in DOMAIN r  PROVE r[j] \in Range(s) \ {s[i]}
    BY <1>8, <1>9 DEF Range, IsInjective
  <2>2. ASSUME NEW j \in DOMAIN s, j # i  PROVE s[j] \in Range(r)
    <3>1. CASE j < i
      <4>1. j \in DOMAIN r /\ r[j] = s[j]
        BY <1>8, <1>9, <3>1
      <4> QED BY Zenon, <4>1 DEF Range
    <3>2. CASE j > i
      <4>1. j - 1 \in DOMAIN r /\ r[j - 1] = s[j]
        BY <1>8, <1>9, <3>2
      <4> QED BY Zenon, <4>1 DEF Range
    <3> QED BY <1>9, <2>2, <3>1, <3>2
  <2> QED BY Zenon, <2>1, <2>2 DEF Range
<1>11. IsInjective(r)
  <2>1. SUFFICES ASSUME NEW j \in DOMAIN r, NEW k \in DOMAIN r, r[j] = r[k]  PROVE j = k
    BY Zenon DEF IsInjective
  <2>2. PICK p \in DOMAIN s : p = (IF j < i THEN j ELSE j + 1) /\ r[j] = s[p]
    BY <1>8, <1>9
  <2>3. PICK q \in DOMAIN s : q = (IF k < i THEN k ELSE k + 1) /\ r[k] = s[q]
    BY <1>8, <1>9
  <2>4. p = q
    BY Zenon, <2>1, <2>2, <2>3 DEF IsInjective
  <2> QED BY <1>9, <2>2, <2>3, <2>4
<1> QED BY Zenon, <1>5, <1>7, <1>10, <1>11

-----------------------------------------------------------------------------
(* The invariant.                                                          *)

Directory == [list : Seq(Nodes), offset : Maps(Offsets), name : Maps(Names)]

\* The nodes of a list are nodes.
LEMMA ListNodes ==
    ASSUME NEW r \in Directory
    PROVE  r.list \in Seq(Nodes) /\ Range(r.list) \subseteq Nodes
BY DEF Directory, Range

\* A directory whose nodes nobody touches stays as it is.
LEMMA OthersKept ==
    ASSUME IndexesInv, NEW d \in Directories, NEW c \in Directories, c # d, dir'[c] = dir[c],
           \A n \in Nodes : n \notin Range(dir[d].list) /\ node[n] # None => node'[n] = node[n]
    PROVE  /\ \A n \in Range(dir[c].list) : n \in Nodes /\ node'[n] = node[n]
           /\ IndexesSound(dir[c])'
           /\ c \notin damaged => IndexesComplete(dir[c])'
<1> USE DEF IndexesInv
<1>1. PICK r \in Directory : r = dir[c] /\ r = dir'[c]
  BY Zenon DEF TypeOK, Directory
<1>2. \A n \in Range(r.list) : n \in Nodes /\ node'[n] = node[n]
  BY Zenon, <1>1, ListNodes DEF NodesApart
<1>3. IndexesSound(dir[c])'
  BY <1>1, <1>2 DEF IndexesSound
<1>4. c \notin damaged => IndexesComplete(dir[c])'
  BY <1>1, <1>2 DEF IndexesComplete
<1> QED BY Zenon, <1>1, <1>2, <1>3, <1>4

\* A call on directory d that takes free nodes and gives up nodes of d keeps the
\* invariant, if it leaves d in order.
LEMMA OneChanges ==
    ASSUME IndexesInv, NEW d \in Directories, NEW r \in Directory,
           dir' = [dir EXCEPT ![d] = r],
           node' \in [Nodes -> entry_type \cup {None}],
           \A n \in Nodes : n \notin Range(dir[d].list) /\ node[n] # None => node'[n] = node[n],
           IsInjective(r.list), Range(r.list) \subseteq Range(dir[d].list) \cup Free,
           \A n \in Range(r.list) : node'[n] # None,
           IndexesSound(r)', d \notin damaged' => IndexesComplete(r)',
           \A c \in Directories \ {d} : c \in damaged => c \in damaged',
           file' \in Seq(entry_type) \cup {None}, WrittenCanBeLoaded'
    PROVE  IndexesInv'
<1> USE DEF IndexesInv
<1>1. dir'[d] = r /\ \A c \in Directories : c # d => dir'[c] = dir[c]
  BY Zenon DEF TypeOK
<1>2. TypeOK'
  BY Zenon DEF TypeOK, Directory
<1>3. NodesApart'
  <2>1. ASSUME NEW c \in Directories
        PROVE  IsInjective(dir'[c].list) /\ \A n \in Range(dir'[c].list) : node'[n] # None
    <3>1. CASE c = d
      BY Zenon, <1>1, <3>1 
    <3>2. CASE c # d
      <4>1. \A n \in Range(dir[c].list) : node'[n] = node[n]
        BY Zenon, <1>1, <3>2, OthersKept
      <4> QED BY ZenonT(60), <1>1, <3>2, <4>1 DEF NodesApart
    <3> QED BY Zenon, <3>1, <3>2
  <2>2. ASSUME NEW c \in Directories, c # d  PROVE Range(dir[c].list) \cap Range(r.list) = {}
    BY ZenonT(60), <2>2 DEF NodesApart, Free
  <2>3. ASSUME NEW b \in Directories, NEW c \in Directories, b # c
        PROVE  Range(dir'[b].list) \cap Range(dir'[c].list) = {}
    BY ZenonT(60), <1>1, <2>2, <2>3 DEF NodesApart
  <2> QED BY Zenon, <2>1, <2>3 DEF NodesApart
<1>4. ASSUME NEW c \in Directories  PROVE IndexesSound(dir[c])'
  <2>1. CASE c = d
    BY <1>1, <2>1, SMTT(30) DEF IndexesSound
  <2>2. CASE c # d
    BY Zenon, <1>1, <2>2, OthersKept 
  <2> QED BY Zenon, <2>1, <2>2 
<1>5. ASSUME NEW c \in Directories, c \notin damaged'  PROVE IndexesComplete(dir[c])'
  <2>1. CASE c = d
    BY <1>1, <1>5, <2>1 DEF IndexesComplete
  <2>2. CASE c # d
    BY Zenon, <1>1, <1>5, <2>2, OthersKept 
  <2> QED BY Zenon, <2>1, <2>2 
<1> QED BY Zenon, <1>2, <1>3, <1>4, <1>5 

\* The file, when neither it nor its mark changes.
LEMMA SameFile ==
    ASSUME WrittenCanBeLoaded, file' = file, "file" \in damaged => "file" \in damaged'
    PROVE  WrittenCanBeLoaded'
BY ZenonT(60) DEF WrittenCanBeLoaded, Loadable

\* What Linked makes of a directory.
LEMMA LinkedIs ==
    ASSUME NEW r \in Directory, IsInjective(r.list), NEW n \in Nodes, n \notin Range(r.list),
           NEW e \in entry_type, NEW threw, NEW q, q = Linked(r, n, e, threw)
    PROVE  /\ q \in Directory
           /\ IsInjective(q.list) /\ Range(q.list) = Range(r.list) \cup {n}
           /\ q.offset = r.offset \/ q.offset = With(r.offset, e.offset, n)
           /\ q.name = r.name \/ (e.name # NoName /\ q.name = With(r.name, e.name, n))
<1>1. /\ q.list = Append(r.list, n)
      /\ q.offset = IF threw = "offset" THEN r.offset ELSE With(r.offset, e.offset, n)
      /\ q.name = IF threw # "none" \/ e.name = NoName THEN r.name ELSE With(r.name, e.name, n)
      /\ q = [list |-> q.list, offset |-> q.offset, name |-> q.name]
  BY Zenon DEF Linked
<1>2. /\ q.list \in Seq(Nodes) /\ IsInjective(q.list)
      /\ Range(q.list) = Range(r.list) \cup {n}
  BY ZenonT(60), <1>1, AppendedList, ListNodes
<1>3. q.offset \in Maps(Offsets) /\ q.name \in Maps(Names)
  <2>1. r.offset \in Maps(Offsets) /\ r.name \in Maps(Names)
    BY Zenon DEF Directory
  <2>2. e.offset \in Offsets /\ (e.name # NoName => e.name \in Names)
    BY Zenon DEF entry_type
  <2>3. With(r.offset, e.offset, n) \in Maps(Offsets)
    BY Zenon, <2>1, <2>2, WithIs 
  <2>4. e.name # NoName => With(r.name, e.name, n) \in Maps(Names)
    BY Zenon, <2>1, <2>2, WithIs
  <2> QED BY Zenon, <1>1, <2>1, <2>3, <2>4 
<1>4. q \in Directory
  BY Zenon, <1>1, <1>2, <1>3 DEF Directory
<1> QED BY Zenon, <1>1, <1>2, <1>4

\* insert, also when it throws.
LEMMA InsertKeeps ==
    ASSUME IndexesInv, NEW d \in Directories, NEW e \in entry_type,
           NEW threw \in {"none", "offset", "name"}, insert(d, e, threw)
    PROVE  IndexesInv'
<1>0. /\ TypeOK /\ NodesApart /\ IndexesSound(dir[d]) /\ WrittenCanBeLoaded
      /\ d \notin damaged => IndexesComplete(dir[d])
  BY Zenon DEF IndexesInv
<1>1. PICK r \in Directory : r = dir[d]
  BY Zenon, <1>0 DEF TypeOK, Directory
<1>2. PICK n \in Free : /\ node' = [node EXCEPT ![n] = e]
                        /\ dir' = [dir EXCEPT ![d] = Linked(r, n, e, threw)]
  BY Zenon, <1>1 DEF insert
<1>3. /\ damaged' = IF threw = "none" THEN damaged ELSE damaged \cup {d}
      /\ file' = file
      /\ e.offset \notin DOMAIN r.offset
      /\ e.name # NoName => e.name \notin DOMAIN r.name
  BY Zenon, <1>1 DEF insert
<1>4. n \in Nodes /\ node[n] = None /\ n \notin Range(r.list)
  BY Zenon, <1>0, <1>1 DEF Free, NodesApart
<1>5. IsInjective(r.list) /\ \A m \in Range(r.list) : m \in Nodes /\ node[m] # None
  BY Zenon, <1>0, <1>1, ListNodes DEF NodesApart
<1>6. PICK q : q = Linked(r, n, e, threw)
  OBVIOUS
<1>7. /\ q \in Directory
      /\ IsInjective(q.list) /\ Range(q.list) = Range(r.list) \cup {n}
      /\ q.offset = r.offset \/ q.offset = With(r.offset, e.offset, n)
      /\ q.name = r.name \/ (e.name # NoName /\ q.name = With(r.name, e.name, n))
  BY <1>4, <1>5, <1>6, LinkedIs
<1>8. /\ node' \in [Nodes -> entry_type \cup {None}] /\ node'[n] = e
      /\ \A m \in Nodes \ {n} : node'[m] = node[m]
  BY Zenon, <1>0, <1>2, <1>4 DEF TypeOK
<1>9. r.offset \in Maps(Offsets) /\ r.name \in Maps(Names) /\ e.offset \in Offsets
      /\ (e.name # NoName => e.name \in Names) /\ e # None
  BY Zenon, NodeAssumption DEF Directory, entry_type
<1>10. LET f == With(r.offset, e.offset, n) IN
       /\ DOMAIN f = DOMAIN r.offset \cup {e.offset} /\ f[e.offset] = n
       /\ \A o \in DOMAIN r.offset : f[o] = r.offset[o]
  BY Zenon, <1>3 DEF With
<1>11. e.name # NoName =>
       LET f == With(r.name, e.name, n) IN
       /\ DOMAIN f = DOMAIN r.name \cup {e.name} /\ f[e.name] = n
       /\ \A x \in DOMAIN r.name : f[x] = r.name[x]
  BY Zenon, <1>3 DEF With
<1>12. \A o \in DOMAIN q.offset : \/ o \in DOMAIN r.offset /\ q.offset[o] = r.offset[o]
                                  \/ o = e.offset /\ q.offset[o] = n
  BY Zenon, <1>7, <1>10 
<1>13. \A x \in DOMAIN q.name : \/ x \in DOMAIN r.name /\ q.name[x] = r.name[x]
                                \/ x = e.name /\ q.name[x] = n
  BY Zenon, <1>7, <1>11
<1>14. IndexesSound(r)
  BY Zenon, <1>0, <1>1 
<1>15. IndexesSound(q)'
  BY <1>4, <1>5, <1>7, <1>8, <1>12, <1>13, <1>14, SMTT(30) DEF IndexesSound
<1>16. d \notin damaged' => IndexesComplete(q)'
  <2> SUFFICES ASSUME d \notin damaged'  PROVE IndexesComplete(q)'
    OBVIOUS
  <2>1. threw = "none" /\ d \notin damaged
    BY Zenon, <1>3
  <2>2. IndexesComplete(r)
    BY Zenon, <1>0, <1>1, <2>1
  <2>3. /\ DOMAIN q.offset = DOMAIN r.offset \cup {e.offset} /\ q.offset[e.offset] = n
        /\ \A o \in DOMAIN r.offset : q.offset[o] = r.offset[o]
    BY Zenon, <1>6, <1>10, <2>1 DEF Linked
  <2>4. /\ DOMAIN r.name \subseteq DOMAIN q.name
        /\ e.name # NoName => e.name \in DOMAIN q.name /\ q.name[e.name] = n
        /\ \A x \in DOMAIN r.name : q.name[x] = r.name[x]
    BY Zenon, <1>6, <1>11, <2>1 DEF Linked
  <2> QED BY <1>4, <1>5, <1>7, <1>8, <2>2, <2>3, <2>4 DEF IndexesComplete
<1>17. WrittenCanBeLoaded'
  BY Zenon, <1>0, <1>3, SameFile
<1> QED
  BY ZenonT(60), <1>0, <1>1, <1>2, <1>3, <1>4, <1>5, <1>6, <1>7, <1>8, <1>9, <1>15, <1>16, <1>17,
     OneChanges 
  DEF TypeOK

\* erase by an iterator.
LEMMA EraseKeeps ==
    ASSUME IndexesInv, NEW d \in Directories, NEW i \in DOMAIN dir[d].list, EraseAt(d, i)
    PROVE  IndexesInv'
<1>0. /\ TypeOK /\ NodesApart /\ IndexesSound(dir[d]) /\ WrittenCanBeLoaded
      /\ d \notin damaged => IndexesComplete(dir[d])
  BY Zenon DEF IndexesInv
<1>1. PICK r \in Directory : r = dir[d]
  BY Zenon, <1>0 DEF TypeOK, Directory
<1>2. PICK n : n = r.list[i]
  OBVIOUS
<1>3. PICK e : e = node[n]
  OBVIOUS
<1>4. PICK q : q = Unlinked(r, i)
  OBVIOUS
<1>5. /\ dir' = [dir EXCEPT ![d] = q] /\ node' = [node EXCEPT ![n] = None]
      /\ file' = file /\ damaged' = damaged
  BY Zenon, <1>1, <1>2, <1>4 DEF EraseAt
<1>6. /\ q.list = ListErase(r.list, i) /\ q.offset = Without(r.offset, e.offset)
      /\ q.name = Without(r.name, e.name)
      /\ q = [list |-> q.list, offset |-> q.offset, name |-> q.name]
  BY Zenon, <1>2, <1>3, <1>4 DEF Unlinked
<1>7. IsInjective(r.list) /\ \A m \in Range(r.list) : m \in Nodes /\ node[m] # None
  BY Zenon, <1>0, <1>1, ListNodes DEF NodesApart
<1>8. r.list \in Seq(Nodes) /\ r.offset \in Maps(Offsets) /\ r.name \in Maps(Names)
  BY Zenon DEF Directory
<1>9. q.list \in Seq(Nodes) /\ Range(q.list) = Range(r.list) \ {n} /\ IsInjective(q.list)
  BY <1>1, <1>2, <1>6, <1>7, <1>8, RemovedList
<1>10. /\ q.offset \in Maps(Offsets) /\ DOMAIN q.offset = DOMAIN r.offset \ {e.offset}
       /\ \A o \in DOMAIN q.offset : q.offset[o] = r.offset[o]
  <2>1. q.offset \in Maps(Offsets)
    BY Zenon, <1>6, <1>8, WithoutIs
  <2>2. DOMAIN q.offset = DOMAIN r.offset \ {e.offset} /\ \A o \in DOMAIN q.offset : q.offset[o] = r.offset[o]
    BY Zenon, <1>6 DEF Without, Restrict
  <2> QED BY Zenon, <2>1, <2>2
<1>11. /\ q.name \in Maps(Names) /\ DOMAIN q.name = DOMAIN r.name \ {e.name}
       /\ \A x \in DOMAIN q.name : q.name[x] = r.name[x]
  <2>1. q.name \in Maps(Names)
    BY Zenon, <1>6, <1>8, WithoutIs
  <2>2. DOMAIN q.name = DOMAIN r.name \ {e.name} /\ \A x \in DOMAIN q.name : q.name[x] = r.name[x]
    BY Zenon, <1>6 DEF Without, Restrict
  <2> QED BY Zenon, <2>1, <2>2
<1>12. q \in Directory
  BY Zenon, <1>6, <1>9, <1>10, <1>11 DEF Directory
<1>13. n \in Range(r.list)
  BY Zenon, <1>1, <1>2 DEF Range
<1>14. /\ node' \in [Nodes -> entry_type \cup {None}]
       /\ \A m \in Nodes \ {n} : node'[m] = node[m]
  BY Zenon, <1>0, <1>5, <1>7, <1>13 DEF TypeOK
<1>15. IndexesSound(q)'
  <2>1. IndexesSound(r)
    BY Zenon, <1>0, <1>1 
  <2> QED BY <1>3, <1>7, <1>9, <1>10, <1>11, <1>14, <2>1 DEF IndexesSound
<1>16. d \notin damaged => IndexesComplete(q)'
  <2> SUFFICES ASSUME d \notin damaged  PROVE IndexesComplete(q)'
    OBVIOUS
  <2>1. IndexesComplete(r)
    BY Zenon, <1>0, <1>1
  <2> QED BY <1>3, <1>7, <1>9, <1>10, <1>11, <1>13, <1>14, <2>1 DEF IndexesComplete
<1>17. WrittenCanBeLoaded'
  BY Zenon, <1>0, <1>5, SameFile 
<1> QED
  BY ZenonT(60), <1>0, <1>1, <1>5, <1>7, <1>9, <1>12, <1>13, <1>14, <1>15, <1>16, <1>17, OneChanges 
  DEF TypeOK

\* clear, and destruction.
LEMMA ClearKeeps ==
    ASSUME IndexesInv, NEW d \in Directories, clear(d)
    PROVE  IndexesInv'
<1>0. /\ TypeOK /\ NodesApart /\ IndexesSound(dir[d]) /\ WrittenCanBeLoaded
      /\ d \notin damaged => IndexesComplete(dir[d])
  BY Zenon DEF IndexesInv
<1>1. PICK q : q = EmptyDirectory
  OBVIOUS
<1>2. /\ q \in Directory /\ Range(q.list) = {} /\ IsInjective(q.list)
      /\ DOMAIN q.offset = {} /\ DOMAIN q.name = {}
  BY Zenon, <1>1, EmptyIs DEF Directory
<1>3. /\ dir' = [dir EXCEPT ![d] = q] /\ damaged' = damaged \ {d} /\ file' = file
      /\ node' = [n \in Nodes |-> IF n \in Range(dir[d].list) THEN None ELSE node[n]]
  BY Zenon, <1>1 DEF clear
<1>4. node' \in [Nodes -> entry_type \cup {None}]
  BY Zenon, <1>0, <1>3 DEF TypeOK
<1>5. IndexesSound(q)' /\ IndexesComplete(q)'
  BY Zenon, <1>2 DEF IndexesSound, IndexesComplete
<1>6. WrittenCanBeLoaded'
  BY Zenon, <1>0, <1>3, SameFile, FileAssumption
<1> QED BY Zenon, <1>0, <1>2, <1>3, <1>4, <1>5, <1>6, OneChanges DEF TypeOK

-----------------------------------------------------------------------------
(* Descriptions and the file.                                              *)

\* The entries of a list of nodes that hold entries.
LEMMA EntriesAre ==
    ASSUME NEW s \in Seq(Nodes), NEW nd \in [Nodes -> entry_type \cup {None}],
           \A i \in DOMAIN s : nd[s[i]] # None,
           NEW es, es = [i \in DOMAIN s |-> nd[s[i]]]
    PROVE  es \in Seq(entry_type) /\ DOMAIN es = DOMAIN s /\ \A i \in DOMAIN s : es[i] = nd[s[i]]
<1>1. DOMAIN s = 1 .. Len(s) /\ Len(s) \in Nat /\ \A i \in DOMAIN s : s[i] \in Nodes
  OBVIOUS
<1>2. \A i \in 1 .. Len(s) : nd[s[i]] \in entry_type
  BY Zenon, <1>1
<1> QED BY <1>1, <1>2

\* Indexes that lead from each entry to its own node tell the entries apart.
LEMMA IndexedAreLoadable ==
    ASSUME NEW es \in Seq(entry_type), NEW r, IsInjective(r.list), DOMAIN es = DOMAIN r.list,
           \A i \in DOMAIN r.list : r.offset[es[i].offset] = r.list[i],
           \A i \in DOMAIN r.list : es[i].name # NoName => r.name[es[i].name] = r.list[i]
    PROVE  Loadable(es)
<1> SUFFICES ASSUME NEW i \in DOMAIN es, NEW j \in DOMAIN es, i < j
             PROVE  /\ es[i].offset # es[j].offset
                    /\ es[i].name = NoName \/ es[i].name # es[j].name
  BY Zenon DEF Loadable
<1>1. i # j
  OBVIOUS
<1>2. r.list[i] # r.list[j]
  BY Zenon, <1>1 DEF IsInjective
<1>3. r.offset[es[i].offset] # r.offset[es[j].offset]
  BY Zenon, <1>2
<1>4. es[i].name # NoName /\ es[j].name # NoName => r.name[es[i].name] # r.name[es[j].name]
  BY Zenon, <1>2
<1> QED BY Zenon, <1>3, <1>4

\* What serialize writes is a list of entries that deserialize accepts.
LEMMA SerializedIsLoadable ==
    ASSUME NEW r \in Directory, IsInjective(r.list),
           NEW nd \in [Nodes -> entry_type \cup {None}], \A n \in Range(r.list) : nd[n] # None,
           NEW es, es = [i \in DOMAIN r.list |-> nd[r.list[i]]]
    PROVE  /\ es \in Seq(entry_type)
           /\ (\A n \in Range(r.list) :
                 /\ r.offset[nd[n].offset] = n
                 /\ nd[n].name # NoName => r.name[nd[n].name] = n) => Loadable(es)
<1>1. r.list \in Seq(Nodes) /\ \A i \in DOMAIN r.list : r.list[i] \in Range(r.list)
  BY Zenon DEF Directory, Range
<1>2. es \in Seq(entry_type) /\ DOMAIN es = DOMAIN r.list /\ \A i \in DOMAIN r.list : es[i] = nd[r.list[i]]
  BY <1>1, EntriesAre, SMTT(30)
<1>3. ASSUME \A n \in Range(r.list) :
                 /\ r.offset[nd[n].offset] = n
                 /\ nd[n].name # NoName => r.name[nd[n].name] = n
      PROVE  Loadable(es)
  <2>1. \A i \in DOMAIN r.list : r.offset[es[i].offset] = r.list[i]
    BY Zenon, <1>1, <1>2, <1>3
  <2>2. \A i \in DOMAIN r.list : es[i].name # NoName => r.name[es[i].name] = r.list[i]
    BY Zenon, <1>1, <1>2, <1>3 
  <2> QED BY Zenon, <1>2, <2>1, <2>2, IndexedAreLoadable 
<1> QED BY Zenon, <1>2, <1>3

\* A description that is changed changes neither offset nor name of an entry,
\* and the directory's own node has it.
LEMMA DescriptionKeeps ==
    ASSUME IndexesInv, NEW d \in Directories, NEW n \in Range(dir[d].list), NEW x \in Descriptions,
           SetDescription(d, n, x)
    PROVE  /\ dir' = dir /\ node' \in [Nodes -> entry_type \cup {None}]
           /\ \A m \in Nodes : m \notin Range(dir[d].list) => node'[m] = node[m]
           /\ \A m \in Range(dir[d].list) :
                 node'[m] # None /\ node'[m].offset = node[m].offset /\ node'[m].name = node[m].name
<1>0. TypeOK /\ NodesApart /\ IndexesSound(dir[d])
  BY Zenon DEF IndexesInv
<1>1. PICK r \in Directory : r = dir[d]
  BY Zenon, <1>0 DEF TypeOK, Directory
<1>2. PICK k : k = FindOffset(d, node[n].offset)
  OBVIOUS
<1>3. /\ k # None /\ dir' = dir
      /\ node' = [node EXCEPT ![k] = [node[k] EXCEPT !.description = x]]
  BY Zenon, <1>2 DEF SetDescription
<1>4. k \in Range(r.list)
  BY Zenon, <1>0, <1>1, <1>2, <1>3 DEF FindOffset, IndexesSound
<1>5. \A m \in Range(r.list) : m \in Nodes /\ node[m] \in entry_type
  BY Zenon, <1>0, <1>1, ListNodes DEF NodesApart, TypeOK
<1>6. PICK e \in entry_type : e = node[k]
  BY Zenon, <1>4, <1>5
<1>7. PICK v : v = [e EXCEPT !.description = x]
  BY Zenon 
<1>8. v \in entry_type /\ v.offset = e.offset /\ v.name = e.name
  BY Zenon, <1>7 DEF entry_type
<1>9. node' = [node EXCEPT ![k] = v] /\ k \in Nodes
  BY Zenon, <1>3, <1>4, <1>5, <1>6, <1>7
<1>10. /\ node' \in [Nodes -> entry_type \cup {None}] /\ node'[k] = v
       /\ \A m \in Nodes \ {k} : node'[m] = node[m]
  BY Zenon, <1>0, <1>8, <1>9 DEF TypeOK
<1>11. v # None /\ \A m \in Range(r.list) : node[m] # None
  BY Zenon, <1>5, <1>8, NodeAssumption 
<1> QED BY Zenon, <1>1, <1>3, <1>4, <1>5, <1>6, <1>8, <1>10, <1>11

\* With the directory the same and only descriptions changed, the indexes are
\* what they were.
LEMMA DescribedIndexes ==
    ASSUME IndexesInv, NEW d \in Directories, dir' = dir,
           node' \in [Nodes -> entry_type \cup {None}],
           \A m \in Nodes : m \notin Range(dir[d].list) => node'[m] = node[m],
           \A m \in Range(dir[d].list) :
               node'[m] # None /\ node'[m].offset = node[m].offset /\ node'[m].name = node[m].name,
           d \in damaged => d \in damaged',
           \A c \in Directories \ {d} : c \in damaged => c \in damaged',
           file' \in Seq(entry_type) \cup {None}, WrittenCanBeLoaded'
    PROVE  IndexesInv'
<1>0. /\ TypeOK /\ NodesApart /\ IndexesSound(dir[d])
      /\ d \notin damaged => IndexesComplete(dir[d])
  BY Zenon DEF IndexesInv
<1>1. PICK r \in Directory : r = dir[d]
  BY Zenon, <1>0 DEF TypeOK, Directory
<1>2. dir' = [dir EXCEPT ![d] = r]
  BY Zenon, <1>0, <1>1 DEF TypeOK
<1>3. IndexesSound(r)'
  BY ZenonT(60), <1>0, <1>1 DEF IndexesSound
<1>4. d \notin damaged' => IndexesComplete(r)'
  BY ZenonT(60), <1>0, <1>1 DEF IndexesComplete
<1>5. IsInjective(r.list)
  BY Zenon, <1>0, <1>1 DEF NodesApart
<1> QED BY ZenonT(60), <1>1, <1>2, <1>3, <1>4, <1>5, OneChanges 

\* set_description of the directory.
LEMMA SetDescriptionKeeps ==
    ASSUME IndexesInv, NEW d \in Directories, NEW i \in DOMAIN dir[d].list, NEW x \in Descriptions,
           set_description(d, i, x)
    PROVE  IndexesInv'
<1>0. TypeOK /\ WrittenCanBeLoaded
  BY Zenon DEF IndexesInv
<1>1. PICK n \in Range(dir[d].list) : n = dir[d].list[i]
  BY Zenon DEF Range
<1>2. SetDescription(d, n, x) /\ file' = file /\ damaged' = damaged
  BY Zenon, <1>1 DEF set_description
<1>3. WrittenCanBeLoaded' /\ file' \in Seq(entry_type) \cup {None}
  BY Zenon, <1>0, <1>2, SameFile DEF TypeOK
<1> QED BY Zenon, <1>2, <1>3, DescriptionKeeps, DescribedIndexes 

\* What the writer of a file does to the marks.
LEMMA WrittenIs ==
    ASSUME NEW d \in Directories, damaged' = Written(d)
    PROVE  /\ \A c \in Directories : c \in damaged <=> c \in damaged'
           /\ "file" \in damaged' <=> d \in damaged
BY Zenon, FileAssumption DEF Written

\* The accessor changes a description and writes the file.
LEMMA AccessorKeeps ==
    ASSUME IndexesInv, NEW d \in Directories, NEW n \in Range(dir[d].list), NEW x \in Descriptions,
           NEW ok \in BOOLEAN, AccessorSetDescription(d, n, x, ok)
    PROVE  IndexesInv'
<1>0. TypeOK /\ NodesApart /\ (d \notin damaged => IndexesComplete(dir[d]))
  BY Zenon DEF IndexesInv
<1>1. PICK r \in Directory : r = dir[d]
  BY Zenon, <1>0 DEF TypeOK, Directory
<1>2. PICK nd : nd = node'
  BY Zenon 
<1>3. /\ dir' = dir /\ nd \in [Nodes -> entry_type \cup {None}]
      /\ \A m \in Nodes : m \notin Range(r.list) => nd[m] = node[m]
      /\ \A m \in Range(r.list) :
            nd[m] # None /\ nd[m].offset = node[m].offset /\ nd[m].name = node[m].name
  BY ZenonT(60), <1>1, <1>2, DescriptionKeeps DEF AccessorSetDescription
<1>4. PICK es : es = [j \in DOMAIN r.list |-> nd[r.list[j]]]
  BY Zenon 
<1>5. damaged' = Written(d) /\ file' = (IF ok THEN es ELSE None)
  BY Zenon, <1>1, <1>2, <1>4 DEF AccessorSetDescription
<1>6. IsInjective(r.list)
  BY Zenon, <1>0, <1>1 DEF NodesApart
<1>7. /\ es \in Seq(entry_type)
      /\ (\A m \in Range(r.list) :
            /\ r.offset[nd[m].offset] = m
            /\ nd[m].name # NoName => r.name[nd[m].name] = m) => Loadable(es)
  BY ZenonT(60), <1>3, <1>4, <1>6, SerializedIsLoadable 
<1>8. d \notin damaged => Loadable(es)
  BY ZenonT(60), <1>0, <1>1, <1>3, <1>7 DEF IndexesComplete
<1>9. WrittenCanBeLoaded'
  BY <1>5, <1>8, WrittenIs DEF WrittenCanBeLoaded, Loadable
<1> QED BY ZenonT(60), <1>1, <1>2, <1>3, <1>5, <1>7, <1>9, WrittenIs, DescribedIndexes

\* Named objects are looked up, anonymous ones visited.
LEMMA NamedAccessorKeeps ==
    ASSUME IndexesInv, NEW d \in Directories, NEW name \in Names, NEW x \in Descriptions,
           NEW ok \in BOOLEAN, NamedAccessorSet(d, name, x, ok)
    PROVE  IndexesInv'
<1>0. IndexesSound(dir[d])
  BY Zenon DEF IndexesInv
<1>1. FindName(d, name) \in Range(dir[d].list)
  BY Zenon, <1>0 DEF NamedAccessorSet, FindName, IndexesSound
<1> QED BY Zenon, <1>1, AccessorKeeps DEF NamedAccessorSet

\* The anonymous accessor, which visits the list.
LEMMA AnonymousAccessorKeeps ==
    ASSUME IndexesInv, NEW d \in Directories, NEW i \in DOMAIN dir[d].list, NEW x \in Descriptions,
           NEW ok \in BOOLEAN, AnonymousAccessorSet(d, i, x, ok)
    PROVE  IndexesInv'
<1>1. dir[d].list[i] \in Range(dir[d].list)
  BY Zenon DEF Range
<1> QED BY Zenon, <1>1, AccessorKeeps DEF AnonymousAccessorSet

\* serialize.
LEMMA SerializeKeeps ==
    ASSUME IndexesInv, NEW d \in Directories, NEW ok \in BOOLEAN, serialize(d, ok)
    PROVE  IndexesInv'
<1>0. TypeOK /\ NodesApart /\ (d \notin damaged => IndexesComplete(dir[d]))
  BY Zenon DEF IndexesInv
<1>1. PICK r \in Directory : r = dir[d]
  BY Zenon, <1>0 DEF TypeOK, Directory
<1>2. PICK nd \in [Nodes -> entry_type \cup {None}] : nd = node
  BY Zenon, <1>0 DEF TypeOK
<1>3. PICK es : es = [j \in DOMAIN r.list |-> nd[r.list[j]]]
  BY Zenon 
<1>4. /\ damaged' = Written(d) /\ file' = (IF ok THEN es ELSE None)
      /\ dir' = dir /\ node' = node
  BY Zenon, <1>1, <1>2, <1>3 DEF serialize, Entries
<1>5. IsInjective(r.list) /\ \A m \in Range(r.list) : nd[m] # None
  BY Zenon, <1>0, <1>1, <1>2 DEF NodesApart
<1>6. /\ es \in Seq(entry_type)
      /\ (\A m \in Range(r.list) :
            /\ r.offset[nd[m].offset] = m
            /\ nd[m].name # NoName => r.name[nd[m].name] = m) => Loadable(es)
  BY Zenon, <1>3, <1>5, SerializedIsLoadable 
<1>7. d \notin damaged => Loadable(es)
  BY Zenon, <1>0, <1>1, <1>2, <1>6 DEF IndexesComplete
<1>8. WrittenCanBeLoaded'
  BY ZenonT(60), <1>4, <1>7, WrittenIs DEF WrittenCanBeLoaded, Loadable
<1> QED BY Zenon, <1>1, <1>2, <1>4, <1>5, <1>6, <1>8, WrittenIs, DescribedIndexes 

\* What deserialize makes of the entries it reads.
LEMMA LoadedIs ==
    ASSUME NEW es \in Seq(entry_type), Loadable(es), NEW ns \in [DOMAIN es -> Nodes],
           NEW q, q = Loaded(es, ns)
    PROVE  /\ q \in Directory /\ q.list = ns
           /\ \A i \in DOMAIN es :
                 /\ es[i].offset \in DOMAIN q.offset /\ q.offset[es[i].offset] = ns[i]
                 /\ es[i].name # NoName =>
                       es[i].name \in DOMAIN q.name /\ q.name[es[i].name] = ns[i]
           /\ \A o \in DOMAIN q.offset : \E i \in DOMAIN es : es[i].offset = o
           /\ \A x \in DOMAIN q.name : x # NoName /\ \E i \in DOMAIN es : es[i].name = x
<1>1. DOMAIN es = 1 .. Len(es) /\ Len(es) \in Nat
      /\ \A i \in DOMAIN es : es[i] \in entry_type
  BY SMTT(30)
<1>2. /\ q.list = ns
      /\ q.offset = [o \in {es[i].offset : i \in DOMAIN es} |-> ns[AtOffset(es, o)]]
      /\ q.name = [x \in {es[i].name : i \in DOMAIN es} \ {NoName} |-> ns[AtName(es, x)]]
      /\ q = [list |-> q.list, offset |-> q.offset, name |-> q.name]
  BY Zenon DEF Loaded
<1>3. ns \in Seq(Nodes)
  BY <1>1, SMTT(30)
<1>4. ASSUME NEW i \in DOMAIN es, NEW j \in DOMAIN es, es[i].offset = es[j].offset  PROVE i = j
  BY <1>1, <1>4 DEF Loadable
<1>5. ASSUME NEW i \in DOMAIN es, NEW j \in DOMAIN es, es[i].name = es[j].name, es[i].name # NoName
      PROVE  i = j
  BY <1>1, <1>5 DEF Loadable
<1>6. ASSUME NEW i \in DOMAIN es
      PROVE  es[i].offset \in DOMAIN q.offset /\ q.offset[es[i].offset] = ns[i]
  <2>1. PICK j : j = AtOffset(es, es[i].offset)
    OBVIOUS
  <2>2. j \in DOMAIN es /\ es[j].offset = es[i].offset
    BY Zenon, <2>1 DEF AtOffset
  <2>3. j = i
    BY Zenon, <1>4, <2>2
  <2>4. es[i].offset \in DOMAIN q.offset
    BY Zenon, <1>2 
  <2>5. \A o \in DOMAIN q.offset : q.offset[o] = ns[AtOffset(es, o)]
    BY Zenon, <1>2 
  <2> QED BY ZenonT(60), <2>1, <2>3, <2>4, <2>5 
<1>7. ASSUME NEW i \in DOMAIN es, es[i].name # NoName
      PROVE  es[i].name \in DOMAIN q.name /\ q.name[es[i].name] = ns[i]
  <2>1. PICK j : j = AtName(es, es[i].name)
    OBVIOUS
  <2>2. j \in DOMAIN es /\ es[j].name = es[i].name
    BY Zenon, <2>1 DEF AtName
  <2>3. j = i
    BY Zenon, <1>5, <1>7, <2>2 
  <2>4. es[i].name \in DOMAIN q.name
    BY Zenon, <1>2, <1>7 
  <2>5. \A x \in DOMAIN q.name : q.name[x] = ns[AtName(es, x)]
    BY Zenon, <1>2 
  <2> QED BY Zenon, <2>1, <2>3, <2>4, <2>5 
<1>8. /\ \A o \in DOMAIN q.offset : \E i \in DOMAIN es : es[i].offset = o
      /\ \A x \in DOMAIN q.name : x # NoName /\ \E i \in DOMAIN es : es[i].name = x
  BY ZenonT(60), <1>2 
<1>9. q.offset \in Maps(Offsets)
  <2>1. \A i \in DOMAIN es : es[i].offset \in Offsets
    BY Zenon, <1>1 DEF entry_type
  <2>2. ASSUME NEW o \in DOMAIN q.offset  PROVE q.offset[o] \in Nodes
    <3>1. PICK i \in DOMAIN es : es[i].offset = o
      BY Zenon, <1>8 
    <3>2. q.offset[o] = ns[i]
      BY Zenon, <1>6, <3>1 
    <3> QED BY Zenon, <3>2 
  <2>3. q.offset \in [DOMAIN q.offset -> Nodes]
    BY Zenon, <1>2, <2>2 
  <2> QED BY <1>8, <2>1, <2>3, MapIs
<1>10. q.name \in Maps(Names)
  <2>1. \A i \in DOMAIN es : es[i].name # NoName => es[i].name \in Names
    BY Zenon, <1>1 DEF entry_type
  <2>2. ASSUME NEW x \in DOMAIN q.name  PROVE q.name[x] \in Nodes
    <3>1. PICK i \in DOMAIN es : es[i].name = x /\ x # NoName
      BY Zenon, <1>8 
    <3>2. q.name[x] = ns[i]
      BY Zenon, <1>7, <3>1 
    <3> QED BY Zenon, <3>2 
  <2>3. q.name \in [DOMAIN q.name -> Nodes]
    BY Zenon, <1>2, <2>2 
  <2> QED BY <1>8, <2>1, <2>3, MapIs
<1>11. q \in Directory
  BY Zenon, <1>2, <1>3, <1>9, <1>10 DEF Directory
<1> QED BY Zenon, <1>2, <1>6, <1>7, <1>8, <1>11 

\* deserialize.
LEMMA DeserializeKeeps ==
    ASSUME IndexesInv, NEW d \in Directories, deserialize(d)
    PROVE  IndexesInv'
<1>0. TypeOK /\ NodesApart /\ WrittenCanBeLoaded
  BY Zenon DEF IndexesInv
<1>1. PICK es \in Seq(entry_type) : es = file
  BY Zenon, <1>0 DEF TypeOK, deserialize
<1>2. Loadable(es) /\ dir[d] = EmptyDirectory /\ file' = file /\ damaged' = damaged \ {d}
  BY Zenon, <1>1 DEF deserialize
<1>3. PICK ns \in Injection(DOMAIN es, Free) :
          /\ node' = [n \in Nodes |-> IF n \in Range(ns) THEN es[AtNode(ns, n)] ELSE node[n]]
          /\ dir' = [dir EXCEPT ![d] = Loaded(es, ns)]
  BY ZenonT(60), <1>1 DEF deserialize
<1>4. ns \in [DOMAIN es -> Free] /\ IsInjective(ns) /\ DOMAIN ns = DOMAIN es
  BY Zenon, <1>3 DEF Injection
<1>5. \A i \in DOMAIN es : ns[i] \in Nodes /\ ns[i] \in Free /\ ns[i] \in Range(ns) /\ es[i] \in entry_type
  BY <1>4 DEF Free, Range
<1>6. ASSUME NEW i \in DOMAIN es  PROVE node'[ns[i]] = es[i]
  <2>1. PICK j : j = AtNode(ns, ns[i])
    OBVIOUS
  <2>2. j \in DOMAIN es /\ ns[j] = ns[i]
    BY Zenon, <1>4, <2>1 DEF AtNode
  <2>3. j = i
    BY Zenon, <1>4, <2>2 DEF IsInjective
  <2> QED BY Zenon, <1>3, <1>5, <2>1, <2>3 
<1>7. \A n \in Range(ns) : \E i \in DOMAIN es : n = ns[i]
  BY Zenon, <1>4 DEF Range
<1>8. node' \in [Nodes -> entry_type \cup {None}]
  <2>1. \A n \in Nodes : n \in Range(ns) => node'[n] \in entry_type
    BY <1>5, <1>6, <1>7
  <2>2. \A n \in Nodes : n \notin Range(ns) => node'[n] \in entry_type \cup {None}
    BY Zenon, <1>0, <1>3 DEF TypeOK
  <2>3. node' \in [Nodes -> {node'[n] : n \in Nodes}]
    BY Zenon, <1>3
  <2> QED BY Zenon, <2>1, <2>2, <2>3
<1>9. \A n \in Nodes : node[n] # None => node'[n] = node[n]
  BY ZenonT(60), <1>3, <1>5, <1>7 DEF Free
<1>10. PICK q : q = Loaded(es, ns)
  OBVIOUS
<1>11. ns \in [DOMAIN es -> Nodes]
  BY Zenon, <1>4 DEF Free
<1>12. /\ q \in Directory /\ q.list = ns
       /\ \A i \in DOMAIN es :
             /\ es[i].offset \in DOMAIN q.offset /\ q.offset[es[i].offset] = ns[i]
             /\ es[i].name # NoName =>
                   es[i].name \in DOMAIN q.name /\ q.name[es[i].name] = ns[i]
       /\ \A o \in DOMAIN q.offset : \E i \in DOMAIN es : es[i].offset = o
       /\ \A x \in DOMAIN q.name : x # NoName /\ \E i \in DOMAIN es : es[i].name = x
  BY <1>2, <1>10, <1>11, LoadedIs
<1>13. IndexesSound(q)'
  BY <1>5, <1>6, <1>12 DEF IndexesSound
<1>14. IndexesComplete(q)'
  BY <1>6, <1>7, <1>12 DEF IndexesComplete
<1>15. \A n \in Range(q.list) : n \in Free /\ node'[n] # None
  BY <1>5, <1>6, <1>7, <1>12, NodeAssumption
<1>16. WrittenCanBeLoaded'
  BY Zenon, <1>0, <1>2, SameFile, FileAssumption
<1>17. dir' = [dir EXCEPT ![d] = q] /\ IsInjective(q.list) /\ Range(q.list) \subseteq Free
  BY Zenon, <1>3, <1>4, <1>10, <1>12, <1>15 
<1>18. /\ \A c \in Directories \ {d} : c \in damaged => c \in damaged'
       /\ file' \in Seq(entry_type) \cup {None}
  BY Zenon, <1>0, <1>2 DEF TypeOK
<1>19. /\ q \in Directory /\ Range(q.list) \subseteq Range(dir[d].list) \cup Free
       /\ \A n \in Range(q.list) : node'[n] # None
  BY Zenon, <1>12, <1>15, <1>17 
<1> QED
  BY Zenon, <1>8, <1>9, <1>13, <1>14, <1>16, <1>17, <1>18, <1>19, OneChanges 

-----------------------------------------------------------------------------
(* The theorems about the indexes and the file.                            *)

\* Empty directories and no file.
LEMMA IndexesInitInv == Init => IndexesInv
<1> SUFFICES ASSUME Init  PROVE IndexesInv
  OBVIOUS
<1>1. TypeOK
  BY Zenon, EmptyIs DEF Init, TypeOK
<1>2. \A d \in Directories : /\ Range(dir[d].list) = {} /\ IsInjective(dir[d].list)
                             /\ DOMAIN dir[d].offset = {} /\ DOMAIN dir[d].name = {}
  BY Zenon, EmptyIs DEF Init
<1>3. NodesApart
  BY Zenon, <1>2 DEF NodesApart
<1>4. \A d \in Directories : IndexesSound(dir[d]) /\ IndexesComplete(dir[d])
  BY Zenon, <1>2 DEF IndexesSound, IndexesComplete
<1>5. WrittenCanBeLoaded
  BY Zenon DEF Init, WrittenCanBeLoaded
<1> QED BY Zenon, <1>1, <1>3, <1>4, <1>5 DEF IndexesInv

\* Every call keeps the invariant.
LEMMA IndexesStepInv == IndexesInv /\ [Next]_vars => IndexesInv'
<1> SUFFICES ASSUME IndexesInv, [Next]_vars  PROVE IndexesInv'
  OBVIOUS
<1>1. CASE UNCHANGED vars
  <2>1. dir' = dir /\ node' = node /\ file' = file /\ damaged' = damaged
    BY Zenon, <1>1 DEF vars
  <2>2. TypeOK' /\ NodesApart'
    BY Zenon, <2>1 DEF IndexesInv, TypeOK, NodesApart
  <2>3. \A d \in Directories : IndexesSound(dir[d])'
    BY ZenonT(60), <2>1 DEF IndexesInv, IndexesSound
  <2>4. \A d \in Directories \ damaged' : IndexesComplete(dir[d])'
    BY <2>1 DEF IndexesInv, IndexesComplete
  <2>5. WrittenCanBeLoaded'
    BY Zenon, <2>1, SameFile DEF IndexesInv
  <2> QED BY Zenon, <2>2, <2>3, <2>4, <2>5 DEF IndexesInv
<1>2. CASE Next
  <2>1. PICK d \in Directories :
          \/ \E e \in entry_type, threw \in {"none", "offset", "name"} : insert(d, e, threw)
          \/ \E i \in DOMAIN dir[d].list :
                 \/ EraseAt(d, i)
                 \/ \E x \in Descriptions : set_description(d, i, x)
                 \/ \E x \in Descriptions, ok \in BOOLEAN : AnonymousAccessorSet(d, i, x, ok)
          \/ \E name \in Names, x \in Descriptions, ok \in BOOLEAN : NamedAccessorSet(d, name, x, ok)
          \/ \E x \in Names : EraseName(d, x)
          \/ \E o \in Offsets : EraseOffset(d, o)
          \/ clear(d) \/ deserialize(d)
          \/ \E ok \in BOOLEAN : serialize(d, ok)
    BY Zenon, <1>2 DEF Next
  <2>2. ASSUME NEW e \in entry_type, NEW threw \in {"none", "offset", "name"}, insert(d, e, threw)
        PROVE  IndexesInv'
    BY Zenon, <2>2, InsertKeeps
  <2>3. ASSUME NEW i \in DOMAIN dir[d].list, EraseAt(d, i)  PROVE IndexesInv'
    BY Zenon, <2>3, EraseKeeps
  <2>4. ASSUME NEW i \in DOMAIN dir[d].list, NEW x \in Descriptions, set_description(d, i, x)
        PROVE  IndexesInv'
    BY Zenon, <2>4, SetDescriptionKeeps
  <2>5. ASSUME NEW i \in DOMAIN dir[d].list, NEW x \in Descriptions, NEW ok \in BOOLEAN,
               AnonymousAccessorSet(d, i, x, ok)
        PROVE  IndexesInv'
    BY Zenon, <2>5, AnonymousAccessorKeeps
  <2>6. ASSUME NEW name \in Names, NEW x \in Descriptions, NEW ok \in BOOLEAN,
               NamedAccessorSet(d, name, x, ok)
        PROVE  IndexesInv'
    BY Zenon, <2>6, NamedAccessorKeeps
  <2>7. ASSUME NEW x, EraseName(d, x) \/ EraseOffset(d, x)  PROVE IndexesInv'
    BY Zenon, <2>3, <2>7 DEF EraseName, EraseOffset
  <2>8. CASE clear(d)
    BY Zenon, <2>8, ClearKeeps
  <2>9. CASE deserialize(d)
    BY <2>9, DeserializeKeeps
  <2>10. ASSUME NEW ok \in BOOLEAN, serialize(d, ok)  PROVE IndexesInv'
    BY Zenon, <2>10, SerializeKeeps
  <2> QED BY Zenon, <2>1, <2>2, <2>3, <2>4, <2>5, <2>6, <2>7, <2>8, <2>9, <2>10
<1> QED BY Zenon, <1>1, <1>2

\* The invariant holds of attributed_object_directory in every reachable state.
THEOREM IndexesInvariant == Spec => []IndexesInv
BY IndexesInitInv, IndexesStepInv, PTL DEF Spec

\* The two hash tables of a directory lead to the nodes of its list that have
\* the key, and to all of them, whatever was inserted, erased, loaded and
\* cleared, as long as no insert of this directory ran out of memory.
THEOREM TablesMatchList == Spec => []IndexesExact
<1>1. IndexesInv => IndexesExact
  BY ZenonT(60) DEF IndexesInv, IndexesSound, IndexesComplete, IndexesExact
<1> QED BY <1>1, IndexesInvariant, PTL

\* Whatever serialize writes without an error, deserialize accepts.
THEOREM SerializedLoads == Spec => []WrittenCanBeLoaded
<1>1. IndexesInv => WrittenCanBeLoaded
  BY Zenon DEF IndexesInv
<1> QED BY <1>1, IndexesInvariant, PTL

-----------------------------------------------------------------------------
(* A directory implements a set of entries.                                *)

\* The entries in the nodes of a list.
LEMMA EntriesRange ==
    ASSUME NEW s, NEW nd
    PROVE  Range([i \in DOMAIN s |-> nd[s[i]]]) = {nd[n] : n \in Range(s)}
BY Zenon DEF Range

\* What the abstract directory holds, by the nodes of the list.
LEMMA HeldIs ==
    ASSUME NEW d \in Directories
    PROVE  /\ d \in damaged => Held[d] = {}
           /\ d \notin damaged => Held[d] = {node[n] : n \in Range(dir[d].list)}
<1>1. PICK s : s = dir[d].list
  OBVIOUS
<1>2. PICK nd : nd = node
  OBVIOUS
<1>3. Entries(dir[d]) = [i \in DOMAIN s |-> nd[s[i]]]
  BY Zenon, <1>1, <1>2 DEF Entries
<1>4. Range(Entries(dir[d])) = {nd[n] : n \in Range(s)}
  BY <1>3, EntriesRange
<1>5. Held[d] = IF d \in damaged THEN {} ELSE Range(Entries(dir[d]))
  BY Zenon DEF Held
<1> QED BY ZenonT(60), <1>1, <1>2, <1>4, <1>5

\* The same in the next state.
LEMMA HeldIsNext ==
    ASSUME NEW d \in Directories
    PROVE  /\ d \in damaged' => Held'[d] = {}
           /\ d \notin damaged' => Held'[d] = {node'[n] : n \in Range(dir'[d].list)}
<1>1. PICK s : s = dir'[d].list
  OBVIOUS
<1>2. PICK nd : nd = node'
  OBVIOUS
<1>3. Entries(dir[d])' = [i \in DOMAIN s |-> nd[s[i]]]
  BY Zenon, <1>1, <1>2 DEF Entries
<1>4. Range(Entries(dir[d])') = {nd[n] : n \in Range(s)}
  BY <1>3, EntriesRange
<1>5. Held'[d] = IF d \in damaged' THEN {} ELSE Range(Entries(dir[d])')
  BY Zenon DEF Held
<1> QED BY Zenon, <1>1, <1>2, <1>4, <1>5

\* No two entries of a directory have an offset or a name in common.
LEMMA HeldDistinct == IndexesInv => \A d \in Directories : Sets!Distinct(Held[d])
<1> SUFFICES ASSUME IndexesInv, NEW d \in Directories  PROVE Sets!Distinct(Held[d])
  OBVIOUS
<1>1. CASE d \in damaged
  BY Zenon, <1>1, HeldIs DEF Sets!Distinct
<1>2. CASE d \notin damaged
  <2>1. IndexesComplete(dir[d])
    BY Zenon, <1>2 DEF IndexesInv
  <2>2. SUFFICES ASSUME NEW m \in Range(dir[d].list), NEW n \in Range(dir[d].list), node[m] # node[n]
                 PROVE  /\ node[m].offset # node[n].offset
                        /\ node[m].name = NoName \/ node[m].name # node[n].name
    BY <1>2, HeldIs DEF Sets!Distinct
  <2>3. m # n
    BY Zenon, <2>2
  <2> QED BY ZenonT(60), <2>1, <2>3 DEF IndexesComplete
<1> QED BY Zenon, <1>1, <1>2

\* The directories that a call is not about keep their entries.
LEMMA OthersHeld ==
    ASSUME IndexesInv, NEW d \in Directories, NEW c \in Directories, c # d, dir'[c] = dir[c],
           \A n \in Nodes : n \notin Range(dir[d].list) /\ node[n] # None => node'[n] = node[n],
           c \in damaged <=> c \in damaged'
    PROVE  Held'[c] = Held[c]
<1>1. \A n \in Range(dir[c].list) : node'[n] = node[n]
  BY Zenon, OthersKept
<1>2. CASE c \in damaged
  BY Zenon, <1>2, HeldIs, HeldIsNext 
<1>3. CASE c \notin damaged
  <2>1. PICK S : S = Range(dir[c].list)
    OBVIOUS
  <2>2. Held[c] = {node[n] : n \in S}
    BY Zenon, <1>3, <2>1, HeldIs
  <2>3. Held'[c] = {node'[n] : n \in S}
    BY Zenon, <1>3, <2>1, HeldIsNext
  <2> QED BY <1>1, <2>1, <2>2, <2>3
<1> QED BY Zenon, <1>2, <1>3

\* insert adds its entry, or throws and nothing is promised any more.
LEMMA InsertChanges ==
    ASSUME IndexesInv, NEW d \in Directories, NEW e \in entry_type,
           NEW threw \in {"none", "offset", "name"}, insert(d, e, threw)
    PROVE  /\ Sets!Change(Held[d], Held'[d])
           /\ \A c \in Directories \ {d} : Held'[c] = Held[c]
<1>0. TypeOK /\ NodesApart /\ (d \notin damaged => IndexesComplete(dir[d]))
  BY Zenon DEF IndexesInv
<1>1. PICK r \in Directory : r = dir[d]
  BY Zenon, <1>0 DEF TypeOK, Directory
<1>2. PICK n \in Free : /\ node' = [node EXCEPT ![n] = e]
                        /\ dir' = [dir EXCEPT ![d] = Linked(r, n, e, threw)]
  BY <1>1, ZenonT(30) DEF insert
<1>3. /\ damaged' = IF threw = "none" THEN damaged ELSE damaged \cup {d}
      /\ e.offset \notin DOMAIN r.offset
  BY Zenon, <1>1 DEF insert
<1>4. /\ n \in Nodes /\ node[n] = None /\ n \notin Range(r.list)
      /\ r.list \in Seq(Nodes) /\ Range(r.list) \subseteq Nodes /\ IsInjective(r.list)
  BY Zenon, <1>0, <1>1, ListNodes DEF Free, NodesApart
<1>5. /\ node'[n] = e /\ \A m \in Nodes \ {n} : node'[m] = node[m]
      /\ \A c \in Directories \ {d} : dir'[c] = dir[c]
      /\ dir'[d].list = Append(r.list, n)
  BY Zenon, <1>0, <1>2, <1>4 DEF TypeOK, Linked
<1>6. \A c \in Directories \ {d} : Held'[c] = Held[c]
  BY <1>3, <1>4, <1>5, OthersHeld
<1>7. CASE d \in damaged
  <2>1. Held'[d] = {}
    BY Zenon, <1>3, <1>7, HeldIsNext
  <2> QED BY Zenon, <1>6, <2>1 DEF Sets!Change
<1>8. CASE threw # "none"
  <2>1. Held'[d] = {}
    BY Zenon, <1>3, <1>8, HeldIsNext
  <2> QED BY <1>6, <2>1 DEF Sets!Change
<1>9. CASE d \notin damaged /\ threw = "none"
  <2>1. Range(dir'[d].list) = Range(r.list) \cup {n}
    BY Zenon, <1>4, <1>5, AppendedList
  <2>2. Held[d] = {node[m] : m \in Range(r.list)}
    BY Zenon, <1>1, <1>9, HeldIs
  <2>3. Held'[d] = {node'[m] : m \in Range(r.list) \cup {n}}
    BY Zenon, <1>3, <1>9, <2>1, HeldIsNext
  <2>4. Held'[d] = Held[d] \cup {e}
    BY <1>4, <1>5, <2>2, <2>3
  <2>5. e \notin Held[d]
    BY ZenonT(60), <1>0, <1>1, <1>3, <1>9, <2>2 DEF IndexesComplete
  <2>6. e \in Sets!Entry
    BY Zenon DEF entry_type, Sets!Entry
  <2> QED BY Zenon, <1>6, <2>4, <2>5, <2>6 DEF Sets!Change
<1> QED BY Zenon, <1>6, <1>7, <1>8, <1>9

\* erase removes the entry it found, and no other.
LEMMA EraseChanges ==
    ASSUME IndexesInv, NEW d \in Directories, NEW i \in DOMAIN dir[d].list, EraseAt(d, i)
    PROVE  /\ Sets!Change(Held[d], Held'[d])
           /\ \A c \in Directories \ {d} : Held'[c] = Held[c]
<1>0. TypeOK /\ NodesApart /\ (d \notin damaged => IndexesComplete(dir[d]))
  BY Zenon DEF IndexesInv
<1>1. PICK r \in Directory : r = dir[d]
  BY Zenon, <1>0 DEF TypeOK, Directory
<1>2. PICK n : n = r.list[i]
  OBVIOUS
<1>3. /\ r.list \in Seq(Nodes) /\ Range(r.list) \subseteq Nodes /\ IsInjective(r.list)
      /\ n \in Range(r.list)
  BY Zenon, <1>0, <1>1, <1>2, ListNodes DEF NodesApart, Range
<1>4. /\ dir'[d].list = ListErase(r.list, i) /\ damaged' = damaged
      /\ \A c \in Directories \ {d} : dir'[c] = dir[c]
      /\ \A m \in Nodes \ {n} : node'[m] = node[m]
  BY Zenon, <1>0, <1>1, <1>2, <1>3 DEF EraseAt, TypeOK, Unlinked
<1>5. \A c \in Directories \ {d} : Held'[c] = Held[c]
  BY ZenonT(60), <1>1, <1>3, <1>4, OthersHeld
<1>6. CASE d \in damaged
  <2>1. Held'[d] = {}
    BY Zenon, <1>4, <1>6, HeldIsNext
  <2> QED BY Zenon, <1>5, <2>1 DEF Sets!Change
<1>7. CASE d \notin damaged
  <2>1. Range(dir'[d].list) = Range(r.list) \ {n}
    BY <1>1, <1>2, <1>3, <1>4, RemovedList
  <2>2. Held[d] = {node[m] : m \in Range(r.list)}
    BY Zenon, <1>1, <1>7, HeldIs
  <2>3. Held'[d] = {node'[m] : m \in Range(r.list) \ {n}}
    BY Zenon, <1>4, <1>7, <2>1, HeldIsNext
  <2>4. \A m \in Range(r.list) \ {n} : node[m] # node[n]
    BY Zenon, <1>0, <1>1, <1>3, <1>7 DEF IndexesComplete
  <2>5. Held'[d] = Held[d] \ {node[n]} /\ node[n] \in Held[d]
    BY <1>3, <1>4, <2>2, <2>3, <2>4
  <2> QED BY Zenon, <1>5, <2>5 DEF Sets!Change
<1> QED BY Zenon, <1>5, <1>6, <1>7

\* set_description, of the directory and of an accessor, changes one entry.
LEMMA DescriptionChanges ==
    ASSUME IndexesInv, NEW d \in Directories, NEW n \in Range(dir[d].list), NEW x \in Descriptions,
           SetDescription(d, n, x), \A c \in Directories : c \in damaged <=> c \in damaged'
    PROVE  /\ Held'[d] = Held[d] \/ Sets!Describe(Held[d], Held'[d])
           /\ \A c \in Directories \ {d} : Held'[c] = Held[c]
<1>0. TypeOK /\ NodesApart /\ IndexesSound(dir[d]) /\ (d \notin damaged => IndexesComplete(dir[d]))
  BY Zenon DEF IndexesInv
<1>1. PICK r \in Directory : r = dir[d]
  BY Zenon, <1>0 DEF TypeOK, Directory
<1>2. PICK k : k = FindOffset(d, node[n].offset)
  OBVIOUS
<1>3. PICK v : v = [node[k] EXCEPT !.description = x]
  BY Zenon 
<1>4. k # None /\ dir' = dir /\ node' = [node EXCEPT ![k] = v]
  BY Zenon, <1>2, <1>3 DEF SetDescription
<1>5. k \in Range(r.list) /\ Range(r.list) \subseteq Nodes
  BY Zenon, <1>0, <1>1, <1>2, <1>4, ListNodes DEF FindOffset, IndexesSound
<1>6. node'[k] = v /\ \A m \in Nodes \ {k} : node'[m] = node[m]
  BY Zenon, <1>0, <1>4, <1>5 DEF TypeOK
<1>7. \A c \in Directories \ {d} : Held'[c] = Held[c]
  BY ZenonT(60), <1>1, <1>4, <1>5, <1>6, OthersHeld
<1>8. CASE d \in damaged
  <2>1. Held[d] = {} /\ Held'[d] = {}
    BY Zenon, <1>8, HeldIs, HeldIsNext
  <2> QED BY Zenon, <1>7, <2>1
<1>9. CASE d \notin damaged
  <2>1. Held[d] = {node[m] : m \in Range(r.list)}
    BY Zenon, <1>1, <1>9, HeldIs
  <2>2. Held'[d] = {node'[m] : m \in Range(r.list)}
    BY Zenon, <1>1, <1>4, <1>9, HeldIsNext
  <2>3. \A m \in Range(r.list) \ {k} : node[m] # node[k]
    BY Zenon, <1>0, <1>1, <1>5, <1>9 DEF IndexesComplete
  <2>4. Held'[d] = (Held[d] \ {node[k]}) \cup {v} /\ node[k] \in Held[d]
    BY <1>5, <1>6, <2>1, <2>2, <2>3
  <2> QED BY Zenon, <1>3, <1>7, <2>4 DEF Sets!Describe
<1> QED BY Zenon, <1>7, <1>8, <1>9

\* clear leaves nothing.
LEMMA ClearChanges ==
    ASSUME IndexesInv, NEW d \in Directories, clear(d)
    PROVE  /\ Sets!Change(Held[d], Held'[d])
           /\ \A c \in Directories \ {d} : Held'[c] = Held[c]
<1>0. TypeOK
  BY Zenon DEF IndexesInv
<1>1. /\ dir' = [dir EXCEPT ![d] = EmptyDirectory] /\ damaged' = damaged \ {d}
      /\ \A n \in Nodes : n \notin Range(dir[d].list) => node'[n] = node[n]
  BY Zenon DEF clear
<1>2. /\ dir'[d] = EmptyDirectory /\ \A c \in Directories \ {d} : dir'[c] = dir[c]
  BY Zenon, <1>0, <1>1 DEF TypeOK
<1>3. \A c \in Directories \ {d} : Held'[c] = Held[c]
  BY ZenonT(60), <1>1, <1>2, OthersHeld
<1>4. Held'[d] = {}
  BY ZenonT(60), <1>1, <1>2, EmptyIs, HeldIsNext
<1> QED BY Zenon, <1>3, <1>4 DEF Sets!Change

\* deserialize fills a directory that is empty with the entries of the file.
LEMMA DeserializeLoads ==
    ASSUME IndexesInv, NEW d \in Directories, deserialize(d)
    PROVE  /\ Held[d] = {} /\ Held'[d] = Range(file)
           /\ \A c \in Directories \ {d} : Held'[c] = Held[c]
<1>0. TypeOK
  BY DEF IndexesInv
<1>1. dir[d] = EmptyDirectory /\ damaged' = damaged \ {d}
  BY Zenon DEF deserialize
<1>2. PICK ns \in Injection(DOMAIN file, Free) :
          /\ node' = [n \in Nodes |-> IF n \in Range(ns) THEN file[AtNode(ns, n)] ELSE node[n]]
          /\ dir' = [dir EXCEPT ![d] = Loaded(file, ns)]
  BY Zenon DEF deserialize
<1>3. \A n \in Range(ns) : n \in Nodes /\ node[n] = None
  BY Zenon, <1>2 DEF Injection, Free, Range
<1>4. /\ \A n \in Nodes : node[n] # None => node'[n] = node[n]
      /\ \A c \in Directories \ {d} : dir'[c] = dir[c]
  BY Zenon, <1>0, <1>2, <1>3 DEF TypeOK
<1>5. \A c \in Directories \ {d} : Held'[c] = Held[c]
  BY Zenon, <1>1, <1>4, OthersHeld
<1>6. Held[d] = {}
  BY Zenon, <1>1, EmptyIs, HeldIs
<1>7. dir'[d].list = ns
  BY Zenon, <1>0, <1>2 DEF TypeOK, Loaded
<1>8. Held'[d] = {node'[n] : n \in Range(ns)}
  BY Zenon, <1>1, <1>7, HeldIsNext
<1>9. DOMAIN ns = DOMAIN file /\ IsInjective(ns)
  BY Zenon, <1>2 DEF Injection, IsInjective
<1>10. \A i \in DOMAIN ns : AtNode(ns, ns[i]) = i
  BY Zenon, <1>9 DEF IsInjective, AtNode
<1>11. \A i \in DOMAIN file : ns[i] \in Range(ns) /\ node'[ns[i]] = file[i]
  BY Zenon, <1>2, <1>3, <1>9, <1>10 DEF Range
<1>12. Held'[d] = Range(file)
  BY <1>8, <1>9, <1>11 DEF Range
<1> QED BY Zenon, <1>5, <1>6, <1>12

\* What is written of a directory is what it holds, unless nothing is promised.
LEMMA WritesHeld ==
    ASSUME NEW d \in Directories, damaged' = Written(d), dir'[d] = dir[d],
           file' = None \/ file' = [j \in DOMAIN dir[d].list |-> node'[dir[d].list[j]]]
    PROVE  WrittenSet' \in {Held'[d], None}
<1>1. CASE file' = None \/ d \in damaged
  BY Zenon, <1>1 DEF WrittenSet, Written
<1>2. CASE d \notin damaged /\ file' = [j \in DOMAIN dir[d].list |-> node'[dir[d].list[j]]]
  <2>1. PICK s : s = dir[d].list
    OBVIOUS
  <2>2. PICK nd : nd = node'
    OBVIOUS
  <2>3. file' = [j \in DOMAIN s |-> nd[s[j]]]
    BY Zenon, <1>2, <2>1, <2>2
  <2>4. Range([j \in DOMAIN s |-> nd[s[j]]]) = {nd[n] : n \in Range(s)}
    BY EntriesRange
  <2>5. d \notin damaged'
    BY Zenon, <1>2 DEF Written
  <2>6. Held'[d] = {nd[n] : n \in Range(s)}
    BY <2>1, <2>2, <2>5, HeldIsNext
  <2>7. Range(file') = Held'[d]
    BY Zenon, <2>3, <2>4, <2>6
  <2> QED BY Zenon, <2>7 DEF WrittenSet
<1> QED BY Zenon, <1>1, <1>2

\* serialize changes no entry.
LEMMA SerializeKeepsHeld ==
    ASSUME NEW d \in Directories, NEW ok \in BOOLEAN, serialize(d, ok)
    PROVE  Held' = Held
<1>1. dir' = dir /\ node' = node /\ \A c \in Directories : c \in damaged <=> c \in damaged'
  BY Zenon, WrittenIs DEF serialize
<1> QED BY Zenon, <1>1 DEF Held, Entries

\* Calls that do not write leave the file as it is.
LEMMA FileKept ==
    ASSUME file' = file, "file" \in damaged <=> "file" \in damaged'
    PROVE  WrittenSet' = WrittenSet
BY Zenon DEF WrittenSet

\* Every step of the directory is a step of the set of entries, or changes none.
LEMMA StepImplements ==
    ASSUME IndexesInv, [Next]_vars, \A d \in Directories : Sets!Distinct(Held'[d])
    PROVE  [Sets!EntriesNext]_<<Held, WrittenSet>>
<1>1. CASE UNCHANGED vars
  BY Zenon, <1>1 DEF vars, Held, Entries, WrittenSet
<1>2. CASE Next
  <2>1. ASSUME NEW d \in Directories, \A c \in Directories \ {d} : Held'[c] = Held[c],
               Sets!Call(d) \/ Sets!Load(d) \/ Sets!Write(d)
        PROVE  Sets!EntriesNext
    BY Zenon, <2>1 DEF Sets!EntriesNext
  <2>2. ASSUME NEW d \in Directories, \A c \in Directories \ {d} : Held'[c] = Held[c],
               Sets!Change(Held[d], Held'[d]), file' = file,
               damaged' \in {damaged, damaged \cup {d}, damaged \ {d}}
        PROVE  Sets!EntriesNext
    <3>1. WrittenSet' = WrittenSet
      BY Zenon, <2>2, FileAssumption, FileKept
    <3>2. Sets!Call(d)
      BY Zenon, <2>2, <3>1 DEF Sets!Call
    <3> QED BY Zenon, <2>1, <2>2, <3>2
  <2>3. PICK d \in Directories :
          \/ \E e \in entry_type, threw \in {"none", "offset", "name"} : insert(d, e, threw)
          \/ \E i \in DOMAIN dir[d].list :
                 \/ EraseAt(d, i)
                 \/ \E x \in Descriptions : set_description(d, i, x)
                 \/ \E x \in Descriptions, ok \in BOOLEAN : AnonymousAccessorSet(d, i, x, ok)
          \/ \E name \in Names, x \in Descriptions, ok \in BOOLEAN : NamedAccessorSet(d, name, x, ok)
          \/ \E x \in Names : EraseName(d, x)
          \/ \E o \in Offsets : EraseOffset(d, o)
          \/ clear(d) \/ deserialize(d)
          \/ \E ok \in BOOLEAN : serialize(d, ok)
    BY Zenon, <1>2 DEF Next
  <2>4. ASSUME NEW e \in entry_type, NEW threw \in {"none", "offset", "name"}, insert(d, e, threw)
        PROVE  Sets!EntriesNext
    <3>1. file' = file /\ damaged' \in {damaged, damaged \cup {d}, damaged \ {d}}
      BY Zenon, <2>4 DEF insert
    <3> QED BY <2>2, <2>4, <3>1, InsertChanges
  <2>5. ASSUME NEW i \in DOMAIN dir[d].list, EraseAt(d, i)  PROVE Sets!EntriesNext
    <3>1. file' = file /\ damaged' \in {damaged, damaged \cup {d}, damaged \ {d}}
      BY Zenon, <2>5 DEF EraseAt
    <3> QED BY Zenon, <2>2, <2>5, <3>1, EraseChanges
  <2>6. ASSUME NEW i \in DOMAIN dir[d].list, NEW x \in Descriptions, set_description(d, i, x)
        PROVE  [Sets!EntriesNext]_<<Held, WrittenSet>>
    <3>1. dir[d].list[i] \in Range(dir[d].list)
      BY Zenon DEF Range
    <3>2. SetDescription(d, dir[d].list[i], x) /\ file' = file /\ damaged' = damaged
      BY Zenon, <2>6 DEF set_description
    <3>3. /\ Held'[d] = Held[d] \/ Sets!Describe(Held[d], Held'[d])
          /\ \A c \in Directories \ {d} : Held'[c] = Held[c]
      BY Zenon, <3>1, <3>2, DescriptionChanges
    <3>4. CASE Sets!Describe(Held[d], Held'[d])
      <4>1. Sets!Change(Held[d], Held'[d])
        BY Zenon, <3>4 DEF Sets!Change
      <4> QED BY Zenon, <2>2, <3>2, <3>3, <4>1
    <3>5. CASE Held'[d] = Held[d]
      <4>1. \A c \in Directories : Held'[c] = Held[c]
        BY Zenon, <3>3, <3>5
      <4>2. Held' = Held
        BY Zenon, <4>1 DEF Held
      <4> QED BY Zenon, <3>2, <4>2, FileKept
    <3> QED BY Zenon, <3>3, <3>4, <3>5
  <2>7. ASSUME NEW n \in Range(dir[d].list), NEW x \in Descriptions, NEW ok \in BOOLEAN,
               AccessorSetDescription(d, n, x, ok)
        PROVE  Sets!EntriesNext
    <3>1. /\ SetDescription(d, n, x) /\ damaged' = Written(d) /\ dir' = dir
          /\ file' = None \/ file' = [j \in DOMAIN dir[d].list |-> node'[dir[d].list[j]]]
      BY Zenon, <2>7 DEF AccessorSetDescription, SetDescription
    <3>2. \A c \in Directories : c \in damaged <=> c \in damaged'
      BY Zenon, <3>1, WrittenIs
    <3>3. /\ Held'[d] = Held[d] \/ Sets!Describe(Held[d], Held'[d])
          /\ \A c \in Directories \ {d} : Held'[c] = Held[c]
      BY Zenon, <3>1, <3>2, DescriptionChanges
    <3>4. WrittenSet' \in {Held'[d], None}
      BY Zenon, <3>1, WritesHeld
    <3>5. Sets!Write(d)
      BY Zenon, <3>3, <3>4 DEF Sets!Write
    <3> QED BY Zenon, <2>1, <3>3, <3>5
  <2>8. ASSUME NEW i \in DOMAIN dir[d].list, NEW x \in Descriptions, NEW ok \in BOOLEAN,
               AnonymousAccessorSet(d, i, x, ok)
        PROVE  Sets!EntriesNext
    <3>1. dir[d].list[i] \in Range(dir[d].list)
      BY Zenon DEF Range
    <3> QED BY Zenon, <2>7, <2>8, <3>1 DEF AnonymousAccessorSet
  <2>9. ASSUME NEW name \in Names, NEW x \in Descriptions, NEW ok \in BOOLEAN,
               NamedAccessorSet(d, name, x, ok)
        PROVE  Sets!EntriesNext
    <3>1. FindName(d, name) \in Range(dir[d].list)
      BY Zenon, <2>9 DEF NamedAccessorSet, FindName, IndexesInv, IndexesSound
    <3> QED BY Zenon, <2>7, <2>9, <3>1 DEF NamedAccessorSet
  <2>10. ASSUME NEW x, EraseName(d, x) \/ EraseOffset(d, x)  PROVE Sets!EntriesNext
    BY Zenon, <2>5, <2>10 DEF EraseName, EraseOffset
  <2>11. CASE clear(d)
    <3>1. file' = file /\ damaged' \in {damaged, damaged \cup {d}, damaged \ {d}}
      BY Zenon, <2>11 DEF clear
    <3> QED BY Zenon, <2>2, <2>11, <3>1, ClearChanges
  <2>12. CASE deserialize(d)
    <3>1. file' = file /\ damaged' = damaged \ {d}
      BY Zenon, <2>12 DEF deserialize
    <3>2. WrittenSet' = WrittenSet
      BY Zenon, <3>1, FileAssumption, FileKept
    <3>3. WrittenSet # None => WrittenSet = Range(file)
      BY Zenon DEF WrittenSet
    <3>4. Sets!Load(d)
      BY Zenon, <2>12, <3>2, <3>3, DeserializeLoads DEF Sets!Load
    <3> QED BY Zenon, <2>1, <2>12, <3>4, DeserializeLoads
  <2>13. ASSUME NEW ok \in BOOLEAN, serialize(d, ok)  PROVE Sets!EntriesNext
    <3>1. /\ damaged' = Written(d) /\ dir' = dir
          /\ file' = None \/ file' = [j \in DOMAIN dir[d].list |-> node'[dir[d].list[j]]]
      BY Zenon, <2>13 DEF serialize, Entries
    <3>2. Held' = Held
      BY Zenon, <2>13, SerializeKeepsHeld
    <3>3. WrittenSet' \in {Held'[d], None}
      BY Zenon, <3>1, WritesHeld
    <3>4. Sets!Write(d)
      BY Zenon, <3>2, <3>3 DEF Sets!Write
    <3> QED BY Zenon, <2>1, <3>2, <3>4
  <2> QED BY Zenon, <2>3, <2>4, <2>5, <2>6, <2>8, <2>9, <2>10, <2>11, <2>12, <2>13
<1> QED BY Zenon, <1>1, <1>2

\* attributed_object_directory implements a set of entries: no call adds,
\* removes or changes an entry but the one it is about, in the directory it is
\* about, a directory never holds an offset or a name twice, and deserialize
\* gives back the entries that serialize or an accessor wrote last.
THEOREM DirectoryImplementsSet == Spec => ImplementsEntries
<1>1. Init => Sets!EntriesInit
  <2> SUFFICES ASSUME Init  PROVE Sets!EntriesInit
    OBVIOUS
  <2>1. \A d \in Directories : dir[d] = EmptyDirectory /\ d \notin damaged
    BY Zenon DEF Init
  <2>2. \A d \in Directories : Held[d] = {}
    BY Zenon, <2>1, EmptyIs, HeldIs
  <2>3. WrittenSet = None
    BY Zenon DEF Init, WrittenSet
  <2> QED BY Zenon, <2>2, <2>3 DEF Sets!EntriesInit, Held
<1>2. IndexesInv' => (\A d \in Directories : Sets!Distinct(Held[d]))'
  BY HeldDistinct, PTL
<1>3. IndexesInv /\ IndexesInv' /\ [Next]_vars => [Sets!EntriesNext]_<<Held, WrittenSet>>
  BY Zenon, <1>2, StepImplements
<1> QED BY <1>1, <1>3, IndexesInvariant, PTL DEF Spec, ImplementsEntries, Sets!EntriesSpec

-----------------------------------------------------------------------------
(* The segment and its block files.                                        *)

\* Division rounds down.
LEMMA Division ==
    ASSUME NEW a \in Nat, NEW b \in Nat \ {0}
    PROVE  /\ a \div b \in Nat
           /\ (a \div b) * b <= a /\ a < (a \div b + 1) * b
BY SMT

\* Multiplication keeps the order.
LEMMA Products ==
    ASSUME NEW x \in Int, NEW y \in Int, NEW b \in Nat \ {0}
    PROVE  /\ x * b < y * b <=> x < y
           /\ x * b <= y * b <=> x <= y
           /\ (x + y) * b = x * b + y * b
           /\ x * b \in Int /\ 1 * b = b /\ 0 * b = 0
BY SMT

\* A capacity is rounded up to whole blocks, at most those of open.
LEMMA RoundedUp ==
    ASSUME NEW n \in Nat \ {0}, n <= OpenCapacity
    PROVE  \E c \in 1 .. MostBlocks : round_up(n) = c * k_block_size
<1> DEFINE B == k_block_size
           c == (n + B - 1) \div B
           m == (OpenCapacity + B - 1) \div B
<1>1. B \in Nat \ {0} /\ OpenCapacity \in Nat
  BY Zenon, StorageAssumption
<1>2. c \in Nat /\ c * B <= n + B - 1 /\ n + B - 1 < (c + 1) * B
  BY <1>1, Division
<1>3. m \in Nat /\ OpenCapacity + B - 1 < (m + 1) * B
  BY <1>1, Division
<1> HIDE DEF c, m, B
<1>4. c * B < (m + 1) * B /\ 1 * B < (c + 1) * B
  BY <1>1, <1>2, <1>3, Products
<1>5. c < m + 1 /\ 1 < c + 1
  BY <1>1, <1>2, <1>3, <1>4, Products
<1>6. c \in 1 .. m
  BY <1>2, <1>3, <1>5
<1> QED BY Zenon, <1>6 DEF round_up, MostBlocks, c, m, B

\* The size of whole blocks is not rounded.
LEMMA RoundedWhole ==
    ASSUME NEW n \in Nat
    PROVE  round_up(n * k_block_size) = n * k_block_size
<1> DEFINE B == k_block_size
           c == (n * B + B - 1) \div B
<1>1. B \in Nat \ {0} /\ n * B \in Nat
  BY StorageAssumption
<1>2. c \in Nat /\ c * B <= n * B + B - 1 /\ n * B + B - 1 < (c + 1) * B
  BY <1>1, Division
<1> HIDE DEF c, B
<1>3. c * B < (n + 1) * B /\ n * B < (c + 1) * B
  BY <1>1, <1>2, Products
<1>4. c < n + 1 /\ n < c + 1
  BY <1>1, <1>2, <1>3, Products
<1>5. c = n
  BY <1>2, <1>4
<1> QED BY Zenon, <1>5 DEF round_up, c, B

\* The blocks that extend adds fit into a capacity that the request fits.
LEMMA MissingFit ==
    ASSUME NEW n \in Nat, NEW c \in Nat, NEW r \in Nat, r <= c * k_block_size, n <= c,
           st.m_current_segment_size = n * k_block_size
    PROVE  MissingBlocks(r) \in Nat /\ n + MissingBlocks(r) <= c
<1> DEFINE B == k_block_size
           k == (r - n * B + B - 1) \div B
<1>1. B \in Nat \ {0} /\ n * B \in Nat /\ c * B \in Nat
  BY StorageAssumption
<1>2. CASE r <= n * B
  BY <1>1, <1>2 DEF MissingBlocks
<1>3. CASE ~(r <= n * B)
  <2>1. k \in Nat /\ k * B <= r - n * B + B - 1
    <3>1. r - n * B + B - 1 \in Nat
      BY <1>1, <1>3
    <3> QED BY Zenon, <1>1, <3>1, Division
  <2>2. MissingBlocks(r) = k
    BY Zenon, <1>3 DEF MissingBlocks
  <2> HIDE DEF k, B
  <2>3. (n + k) * B < (c + 1) * B
    BY <1>1, <2>1, Products DEF B
  <2>4. n + k < c + 1
    BY <1>1, <2>1, <2>3, Products
  <2> QED BY <2>1, <2>2, <2>4
<1> QED BY Zenon, <1>2, <1>3

-----------------------------------------------------------------------------
(* The parts of the operations. *)

\* What the parts work on.
World == [st : StorageRec, files : Seq({"full", "short"}),
          mapped : [blocks : SUBSET Nat, prot : {"none", "r", "rw"}], leaked : BOOLEAN]

\* An open object with n mapped blocks of full files.
Whole(w, n) ==
    /\ w \in World /\ is_open(w.st) /\ w.st.m_num_blocks = n
    /\ w.st.m_current_segment_size = n * k_block_size
    /\ w.st.m_block_fd_list = 0 .. n - 1 /\ w.mapped.blocks = 0 .. n - 1
    /\ Len(w.files) = n /\ \A i \in 1 .. n : w.files[i] = "full"
    /\ \E c \in 1 .. MostBlocks : n <= c /\ w.st.m_segment_capacity = c * k_block_size

\* The files on disk fit what open reserves.
FilesFit(w) == w \in World /\ Len(w.files) <= MostBlocks

\* Replacing the object, or everything but the rest.
LEMMA ObjectReplaced ==
    ASSUME NEW w \in World, NEW s \in StorageRec
    PROVE  LET v == [w EXCEPT !.st = s]
           IN  /\ v \in World /\ v.st = s /\ v.files = w.files /\ v.mapped = w.mapped
               /\ v.leaked = w.leaked
BY Zenon DEF World

\* The fields that counting blocks and listing their descriptors leave alone.
SameUse(s, v) ==
    /\ v.m_broken = s.m_broken /\ v.m_system_page_size = s.m_system_page_size
    /\ v.m_vm_region = s.m_vm_region /\ v.m_top_path = s.m_top_path
    /\ v.m_segment_capacity = s.m_segment_capacity

\* m_num_blocks and m_current_segment_size grow by k blocks.
LEMMA CountedIs ==
    ASSUME NEW s \in StorageRec, NEW k \in Nat
    PROVE  LET v == Counted(s, k)
           IN  /\ v \in StorageRec /\ SameUse(s, v) /\ v.m_num_blocks = s.m_num_blocks + k
               /\ v.m_current_segment_size = s.m_current_segment_size + k * k_block_size
               /\ v.m_block_fd_list = s.m_block_fd_list
<1> DEFINE x == k * k_block_size
<1>1. x \in Nat
  BY StorageAssumption
<1> HIDE DEF x
<1>2. /\ s.m_num_blocks + k \in Nat /\ s.m_current_segment_size + x \in Nat
  BY <1>1 DEF StorageRec
<1>3. Counted(s, k) = [s EXCEPT !.m_num_blocks = s.m_num_blocks + k,
                                !.m_current_segment_size = s.m_current_segment_size + x]
  BY Zenon DEF Counted, StorageRec, x
<1> QED BY ZenonT(60), <1>2, <1>3 DEF StorageRec, SameUse, x

\* Descriptors are added to m_block_fd_list.
LEMMA ListedIs ==
    ASSUME NEW s \in StorageRec, NEW F \in SUBSET Nat
    PROVE  LET v == Listed(s, F)
           IN  /\ v \in StorageRec /\ SameUse(s, v) /\ v.m_num_blocks = s.m_num_blocks
               /\ v.m_current_segment_size = s.m_current_segment_size
               /\ v.m_block_fd_list = s.m_block_fd_list \cup F
<1>1. s.m_block_fd_list \cup F \in SUBSET Nat
  BY Zenon DEF StorageRec
<1>2. Listed(s, F) = [s EXCEPT !.m_block_fd_list = s.m_block_fd_list \cup F]
  BY Zenon DEF Listed
<1> QED BY ZenonT(60), <1>1, <1>2 DEF StorageRec, SameUse

\* Replacing the files.
LEMMA FilesReplaced ==
    ASSUME NEW w \in World, NEW fs \in Seq({"full", "short"})
    PROVE  LET v == [w EXCEPT !.files = fs]
           IN  /\ v \in World /\ v.st = w.st /\ v.files = fs /\ v.mapped = w.mapped
               /\ v.leaked = w.leaked
BY Zenon DEF World

\* A directory without block files.
LEMMA NoFiles == <<>> \in Seq({"full", "short"}) /\ Len(<<>>) = 0
OBVIOUS

\* Replacing what is mapped.
LEMMA MapReplaced ==
    ASSUME NEW w \in World, NEW m \in [blocks : SUBSET Nat, prot : {"none", "r", "rw"}]
    PROVE  LET v == [w EXCEPT !.mapped = m]
           IN  /\ v \in World /\ v.st = w.st /\ v.files = w.files /\ v.mapped = m
               /\ v.leaked = w.leaked
BY Zenon DEF World

\* What priv_map_file does.
LEMMA MapFileIs ==
    ASSUME NEW w \in World, NEW n \in Nat
    PROVE  LET v == priv_map_file(w, n)
           IN  /\ v \in World /\ v.files = w.files /\ v.leaked = w.leaked
               /\ v.mapped.blocks = w.mapped.blocks \cup {n}
               /\ v.st = Listed(w.st, {n})
<1> DEFINE m == [blocks |-> w.mapped.blocks \cup {n}, prot |-> "rw"]
           s == Listed(w.st, {n})
           v == priv_map_file(w, n)
<1>1. w.st \in StorageRec /\ {n} \in SUBSET Nat
  BY Zenon DEF World
<1>2. s \in StorageRec
  BY Zenon, <1>1, ListedIs
<1>3. m \in [blocks : SUBSET Nat, prot : {"none", "r", "rw"}] /\ m.blocks = w.mapped.blocks \cup {n}
  BY Zenon DEF World
<1> HIDE DEF m
<1> DEFINE a == [w EXCEPT !.mapped = m]
<1>4. a \in World /\ a.st = w.st /\ a.files = w.files /\ a.mapped = m /\ a.leaked = w.leaked
  BY Zenon, <1>3, MapReplaced
<1>5. v = [a EXCEPT !.st = s]
  <2>1. v = [a EXCEPT !.st = Listed(a.st, {n})]
    BY Zenon DEF priv_map_file, m
  <2> HIDE DEF a, v
  <2> QED BY Zenon, <1>4, <2>1
<1> HIDE DEF a, s, v
<1>6. /\ v \in World /\ v.st = s /\ v.files = a.files /\ v.mapped = a.mapped
      /\ v.leaked = a.leaked
  BY Zenon, <1>2, <1>4, <1>5, ObjectReplaced
<1> QED BY Zenon, <1>3, <1>4, <1>6 DEF s, v

\* An object that was given up is never open.
LEMMA BrokenIs ==
    ASSUME NEW s \in StorageRec
    PROVE  /\ Broken(s) \in StorageRec /\ Broken(s).m_broken
           /\ Cleared(s) \in StorageRec /\ Cleared(s).m_system_page_size = 0
BY ZenonT(60) DEF Broken, Cleared, StorageRec

\* Giving an object up breaks it and touches neither files nor mappings.
LEMMA AbandonIs ==
    ASSUME NEW w \in World
    PROVE  /\ Abandon(w) \in World /\ Abandon(w).files = w.files /\ Abandon(w).mapped = w.mapped
           /\ Abandon(w).st.m_broken
<1>1. Broken(w.st) \in StorageRec /\ Broken(w.st).m_broken /\ w.st.m_vm_region \in BOOLEAN
  BY Zenon, BrokenIs DEF World, StorageRec
<1> QED BY Zenon, <1>1 DEF Abandon, World

\* priv_release_segment unmaps an open segment, and keeps its files.
LEMMA ReleaseIs ==
    ASSUME NEW w \in World, NEW b \in BOOLEAN
    PROVE  LET R == priv_release_segment(w, b)
           IN  /\ R \in World /\ R.files = w.files
               /\ is_open(w.st) => /\ R.mapped = NotMapped
                                   /\ R.st.m_broken \/ R.st.m_system_page_size = 0
               /\ ~is_open(w.st) => R = w
<1>1. /\ Broken(w.st) \in StorageRec /\ Broken(w.st).m_broken
      /\ Cleared(w.st) \in StorageRec /\ Cleared(w.st).m_system_page_size = 0
  BY Zenon, BrokenIs DEF World
<1> QED BY ZenonT(60), <1>1 DEF priv_release_segment, World, NotMapped

\* The states in which an operation ends: given up with nothing mapped ...
LEMMA GivenUp ==
    ASSUME NEW w, FilesFit(w), w.mapped = NotMapped, Becomes(w),
           w.st.m_broken \/ w.st.m_system_page_size = 0
    PROVE  StorageInv'
<1>1. st' = w.st /\ files' = w.files /\ mapped' = w.mapped /\ leaked' = w.leaked
  BY Zenon DEF Becomes
<1>2. ~is_open(w.st) /\ w.st \in StorageRec
  BY DEF is_open, FilesFit, World, StorageRec
<1>3. StorageTypeOK' /\ Len(files') <= MostBlocks
  BY Zenon, <1>1 DEF StorageTypeOK, FilesFit, World
<1>4. ~is_open(st') /\ ~Usable'
  BY <1>1, <1>2 DEF Usable, StorageRec
<1> QED BY Zenon, <1>1, <1>3, <1>4 DEF StorageInv, OpenIsMapped

\* ... or open, with all blocks mapped.
LEMMA EndsWhole ==
    ASSUME NEW w, NEW n \in Nat, Whole(w, n), Becomes(w)
    PROVE  StorageInv'
<1>1. st' = w.st /\ files' = w.files /\ mapped' = w.mapped /\ leaked' = w.leaked
  BY Zenon DEF Becomes
<1>2. PICK c \in 1 .. MostBlocks : n <= c /\ w.st.m_segment_capacity = c * k_block_size
  BY Zenon DEF Whole
<1>3. MostBlocks \in Nat /\ k_block_size \in Nat \ {0} /\ c \in Nat
  BY StorageAssumption, <1>2, Division DEF MostBlocks
<1>4. n * k_block_size <= c * k_block_size
  BY <1>2, <1>3, Products
<1>5. StorageTypeOK' /\ Len(files') <= MostBlocks
  BY <1>1, <1>2, <1>3 DEF StorageTypeOK, World, Whole
<1>6. is_open(st') /\ ~Usable'
  BY Zenon, <1>1 DEF Whole, Usable
<1>7. OpenIsMapped'
  BY <1>1, <1>2, <1>4, <1>6 DEF OpenIsMapped, Whole
<1> QED BY Zenon, <1>1, <1>2, <1>5, <1>6, <1>7 DEF StorageInv, Whole

\* A failure after some blocks were mapped releases them.
LEMMA FailureEnds ==
    ASSUME NEW w, NEW b \in BOOLEAN, FilesFit(w), is_open(w.st) \/ w.mapped = NotMapped,
           Becomes(Abandon(priv_release_segment(w, b)))
    PROVE  StorageInv'
<1> DEFINE R == priv_release_segment(w, b)
<1>1. R \in World /\ R.files = w.files /\ R.mapped = NotMapped
  BY Zenon, ReleaseIs DEF FilesFit
<1> HIDE DEF R
<1>2. /\ Abandon(R) \in World /\ Abandon(R).files = w.files /\ Abandon(R).mapped = NotMapped
      /\ Abandon(R).st.m_broken
  BY Zenon, <1>1, AbandonIs
<1> QED BY Zenon, <1>2, GivenUp DEF FilesFit, R

\* An object in use, after the capacity was reserved and before a block is mapped.
Begun(w, fs, cap) ==
    /\ w \in World /\ w.files = fs /\ w.mapped = NotMapped
    /\ ~w.st.m_broken /\ w.st.m_system_page_size > 0
    /\ w.st.m_num_blocks = 0 /\ w.st.m_current_segment_size = 0 /\ w.st.m_block_fd_list = {}
    /\ w.st.m_vm_region /\ w.st.m_top_path /\ w.st.m_segment_capacity = cap

\* create and open begin with an object that has no blocks.
LEMMA BegunIs ==
    ASSUME StorageInv, Usable, NEW fs \in Seq({"full", "short"}), NEW r \in Nat, round_up(r) \in Nat,
           NEW header \in BOOLEAN, NEW ro \in BOOLEAN, NEW w \in World, w.files = fs,
           w.st = st, w.mapped = NotMapped
    PROVE  Begun([w EXCEPT !.st = InUse(Prepared(@, r, header), ro)], fs, round_up(r))
<1>1. /\ st \in StorageRec /\ ~st.m_broken /\ st.m_system_page_size > 0
      /\ st.m_num_blocks = 0 /\ st.m_current_segment_size = 0 /\ st.m_block_fd_list = {}
  BY Zenon DEF StorageInv, StorageTypeOK, Usable
<1> DEFINE s == InUse(Prepared(st, r, header), ro)
<1>2. /\ s \in StorageRec /\ s.m_vm_region /\ s.m_top_path /\ s.m_segment_capacity = round_up(r)
      /\ ~s.m_broken /\ s.m_system_page_size > 0
      /\ s.m_num_blocks = 0 /\ s.m_current_segment_size = 0 /\ s.m_block_fd_list = {}
  BY <1>1, ZenonT(30)
  DEF StorageRec, InUse, Prepared, priv_construct_segment_header, priv_reserve_vm
<1> HIDE DEF s
<1> QED BY ZenonT(60), <1>2, ObjectReplaced DEF Begun, s

\* The first block file of a segment.
LEMMA FirstMap ==
    ASSUME NEW w, NEW c \in 1 .. MostBlocks, Begun(w, <<>>, c * k_block_size)
    PROVE  /\ Whole([priv_create_new_map(w, 0, "ok") EXCEPT !.st = Counted(@, 1)], 1)
           /\ \A outcome \in NewMapOutcome \ {"ok"} :
                 /\ FilesFit(priv_create_new_map(w, 0, outcome))
                 /\ priv_create_new_map(w, 0, outcome).mapped = NotMapped
<1>1. /\ MostBlocks \in Nat /\ k_block_size \in Nat \ {0} /\ c \in Nat \ {0} /\ 1 <= MostBlocks
      /\ c * k_block_size \in Nat \ {0}
  BY StorageAssumption, Division, Products DEF MostBlocks
<1>2. w \in World /\ w.files = <<>> /\ w.st \in StorageRec
  BY Zenon DEF Begun, World
<1>3. \A x \in {"full", "short"} :
         /\ WithFile(<<>>, 0, x) = <<x>> /\ <<x>> \in Seq({"full", "short"})
         /\ Len(<<x>>) = 1 /\ <<x>>[1] = x
  BY DEF WithFile
<1>4. ASSUME NEW outcome \in NewMapOutcome \ {"ok"}
      PROVE  /\ FilesFit(priv_create_new_map(w, 0, outcome))
             /\ priv_create_new_map(w, 0, outcome).mapped = NotMapped
  <2>1. \A x \in {"full", "short"} :
           LET v == [w EXCEPT !.files = <<x>>]
           IN  v \in World /\ v.files = <<x>> /\ v.mapped = w.mapped
    BY Zenon, <1>2, <1>3 DEF World
  <2>2. Len(w.files) = 0
    BY <1>2
  <2>3. CASE outcome = "create_file"
    BY <1>1, <1>2, <2>2, <2>3 DEF priv_create_new_map, FilesFit, Begun
  <2>4. CASE outcome = "extend_file_size"
    BY ZenonT(60), <1>1, <1>2, <1>3, <2>1, <2>4 DEF priv_create_new_map, FilesFit, Begun
  <2>5. CASE outcome = "map_file"
    BY ZenonT(60), <1>1, <1>2, <1>3, <2>1, <2>5 DEF priv_create_new_map, FilesFit, Begun
  <2> QED BY Zenon, <2>3, <2>4, <2>5 DEF NewMapOutcome
<1> DEFINE a == [w EXCEPT !.files = <<"full">>]
           u == priv_create_new_map(w, 0, "ok")
           s == Counted(u.st, 1)
           v == [u EXCEPT !.st = Counted(@, 1)]
<1>5. a \in World /\ a.st = w.st /\ a.files = <<"full">> /\ a.mapped = w.mapped
  BY ZenonT(60), <1>2, <1>3, FilesReplaced 
<1>6. u = priv_map_file(a, 0)
  BY Zenon, <1>2, <1>3 DEF priv_create_new_map
<1> HIDE DEF a, u
<1>7. /\ u \in World /\ u.files = <<"full">> /\ u.mapped.blocks = {0}
      /\ u.st = Listed(w.st, {0})
  <2>1. w.mapped.blocks = {} /\ {} \cup {0} = {0}
    BY DEF Begun, NotMapped
  <2>2. /\ u \in World /\ u.files = a.files /\ u.mapped.blocks = a.mapped.blocks \cup {0}
        /\ u.st = Listed(a.st, {0})
    BY Zenon, <1>5, <1>6, MapFileIs 
  <2> QED BY Zenon, <1>5, <2>1, <2>2
<1>8. /\ s \in StorageRec /\ is_open(s) /\ s.m_num_blocks = 1
      /\ s.m_current_segment_size = 1 * k_block_size /\ s.m_block_fd_list = {0}
      /\ s.m_segment_capacity = c * k_block_size
  <2> DEFINE s1 == Listed(w.st, {0})
  <2>1. /\ s1 \in StorageRec /\ SameUse(w.st, s1) /\ s1.m_num_blocks = 0
        /\ s1.m_current_segment_size = 0 /\ s1.m_block_fd_list = {0}
    <3>1. {0} \in SUBSET Nat
      OBVIOUS
    <3>2. /\ s1 \in StorageRec /\ SameUse(w.st, s1) /\ s1.m_num_blocks = w.st.m_num_blocks
          /\ s1.m_current_segment_size = w.st.m_current_segment_size
          /\ s1.m_block_fd_list = w.st.m_block_fd_list \cup {0}
      BY Zenon, <1>2, <3>1, ListedIs
    <3>3. {} \cup {0} = {0}
      OBVIOUS
    <3> HIDE DEF s1
    <3> QED BY Zenon, <3>2, <3>3 DEF Begun
  <2> HIDE DEF s1
  <2>2. /\ s \in StorageRec /\ SameUse(s1, s) /\ s.m_num_blocks = 0 + 1
        /\ s.m_current_segment_size = 0 + 1 * k_block_size /\ s.m_block_fd_list = {0}
    <3>1. u.st = s1
      BY Zenon, <1>7 DEF s1
    <3>2. 1 \in Nat
      OBVIOUS
    <3>3. /\ s \in StorageRec /\ SameUse(s1, s) /\ s.m_num_blocks = s1.m_num_blocks + 1
          /\ s.m_current_segment_size = s1.m_current_segment_size + 1 * k_block_size
          /\ s.m_block_fd_list = s1.m_block_fd_list
      BY Zenon, <2>1, <3>1, <3>2, CountedIs
    <3> HIDE DEF s
    <3> QED BY Zenon, <2>1, <3>3
  <2> HIDE DEF s
  <2>3. 0 + 1 * k_block_size \in Nat \ {0} /\ 0 + 1 * k_block_size = 1 * k_block_size
    BY <1>1
  <2> QED BY <1>1, <2>1, <2>2, <2>3 DEF is_open, Begun, SameUse
<1>9. v \in World /\ v.st = s /\ v.files = <<"full">> /\ v.mapped = u.mapped
  BY ZenonT(60), <1>7, <1>8, ObjectReplaced
<1> HIDE DEF v, s
<1>10. Whole(v, 1)
  <2>1. 0 .. 1 - 1 = {0} /\ 1 .. 1 = {1} /\ 1 <= c
    BY <1>1
  <2> QED BY Zenon, <1>3, <1>7, <1>8, <1>9, <2>1 DEF Whole
<1> QED BY Zenon, <1>4, <1>10 DEF v, u

\* n blocks of the files fs are mapped, in a segment of capacity cap.
BlocksMapped(v, fs, n, cap) ==
    /\ v \in World /\ v.files = fs
    /\ IF n = 0 THEN v.mapped = NotMapped ELSE v.mapped.blocks = 0 .. n - 1
    /\ v.st.m_num_blocks = n /\ v.st.m_current_segment_size = n * k_block_size
    /\ v.st.m_block_fd_list = 0 .. n - 1 /\ v.st.m_segment_capacity = cap
    /\ n > 0 /\ cap > 0 => is_open(v.st)

\* priv_open, after it has mapped some of the block files.
LEMMA NewMapIs ==
    ASSUME NEW w, NEW fs, NEW cap \in Nat, Begun(w, fs, cap), NEW n \in Nat, NEW ro \in BOOLEAN
    PROVE  BlocksMapped(WithBlocks(w, n, ro), fs, n, cap)
<1>1. k_block_size \in Nat \ {0}
  BY Zenon, StorageAssumption
<1>2. n * k_block_size \in Nat /\ (n > 0 => n * k_block_size > 0)
  BY <1>1, Products
<1> DEFINE s == Listed(Counted(w.st, n), 0 .. n - 1)
           m == IF n = 0 THEN NotMapped
                ELSE [blocks |-> 0 .. n - 1, prot |-> IF ro THEN "r" ELSE "rw"]
           v == [w EXCEPT !.st = s, !.mapped = m]
<1>3. w \in World /\ w.st \in StorageRec /\ w.files = fs
  BY Zenon DEF Begun, World
<1>4. WithBlocks(w, n, ro) = v
  BY Zenon DEF WithBlocks
<1>5. /\ s \in StorageRec /\ s.m_num_blocks = n
      /\ s.m_current_segment_size = n * k_block_size
      /\ s.m_block_fd_list = 0 .. n - 1 /\ s.m_segment_capacity = cap /\ SameUse(w.st, s)
  <2>1. /\ 0 .. n - 1 \in SUBSET Nat /\ w.st.m_segment_capacity = cap
        /\ w.st.m_num_blocks = 0 /\ w.st.m_current_segment_size = 0
        /\ w.st.m_block_fd_list = {} /\ {} \cup 0 .. n - 1 = 0 .. n - 1
    BY DEF Begun
  <2> DEFINE u == Counted(w.st, n)
  <2>2. /\ u \in StorageRec /\ SameUse(w.st, u) /\ u.m_num_blocks = 0 + n
        /\ u.m_current_segment_size = 0 + n * k_block_size /\ u.m_block_fd_list = {}
    <3>1. /\ u \in StorageRec /\ SameUse(w.st, u) /\ u.m_num_blocks = w.st.m_num_blocks + n
          /\ u.m_current_segment_size = w.st.m_current_segment_size + n * k_block_size
          /\ u.m_block_fd_list = w.st.m_block_fd_list
      BY Zenon, <1>3, CountedIs
    <3> HIDE DEF u
    <3> QED BY Zenon, <2>1, <3>1
  <2> HIDE DEF u
  <2>3. s \in StorageRec /\ SameUse(u, s) /\ s.m_num_blocks = u.m_num_blocks
        /\ s.m_current_segment_size = u.m_current_segment_size /\ s.m_block_fd_list = 0 .. n - 1
    BY Zenon, <2>1, <2>2, ListedIs DEF u
  <2> HIDE DEF s
  <2> QED BY <1>2, <2>1, <2>2, <2>3 DEF SameUse
<1>6. n > 0 /\ cap > 0 => is_open(s)
  <2>1. n > 0 => 0 .. n - 1 # {}
    OBVIOUS
  <2> HIDE DEF s
  <2> QED BY Zenon, <1>2, <1>3, <1>5, <2>1 DEF is_open, Begun, SameUse
<1>7. m \in [blocks : SUBSET Nat, prot : {"none", "r", "rw"}]
  BY DEF NotMapped
<1>8. IF n = 0 THEN m = NotMapped ELSE m.blocks = 0 .. n - 1
  OBVIOUS
<1> HIDE DEF s, m
<1>9. v \in World /\ v.st = s /\ v.mapped = m /\ v.files = fs
  BY Zenon, <1>3, <1>5, <1>7 DEF World
<1> HIDE DEF v
<1>10. BlocksMapped(v, fs, n, cap)
  BY Zenon, <1>5, <1>6, <1>8, <1>9 DEF BlocksMapped
<1> QED BY Zenon, <1>4, <1>10

\* All of them, when there are any and they fit.
LEMMA MapsAll ==
    ASSUME NEW w, NEW fs, NEW c \in 1 .. MostBlocks, Begun(w, fs, c * k_block_size),
           NEW ro \in BOOLEAN, Len(fs) \in 1 .. c, \A i \in 1 .. Len(fs) : fs[i] = "full"
    PROVE  Whole(WithBlocks(w, Len(fs), ro), Len(fs))
<1>1. k_block_size \in Nat \ {0} /\ c \in Nat \ {0}
  BY StorageAssumption, Division DEF MostBlocks
<1>2. c * k_block_size \in Nat \ {0} /\ Len(fs) \in Nat \ {0} /\ Len(fs) <= c
  BY <1>1, Products
<1> DEFINE v == WithBlocks(w, Len(fs), ro)
<1>3. /\ v \in World /\ v.files = fs /\ v.mapped.blocks = 0 .. Len(fs) - 1
      /\ v.st.m_num_blocks = Len(fs) /\ v.st.m_current_segment_size = Len(fs) * k_block_size
      /\ v.st.m_block_fd_list = 0 .. Len(fs) - 1 /\ v.st.m_segment_capacity = c * k_block_size
      /\ is_open(v.st)
  <2>1. BlocksMapped(v, fs, Len(fs), c * k_block_size)
    BY Zenon, <1>2, NewMapIs
  <2> HIDE DEF v
  <2> QED BY <1>2, <2>1 DEF BlocksMapped
<1> HIDE DEF v
<1> QED BY Zenon, <1>2, <1>3 DEF Whole, v

\* Testing the file system changes nothing else.
LEMMA TestedWhole ==
    ASSUME NEW w, NEW n \in Nat, Whole(w, n), NEW b \in BOOLEAN
    PROVE  Whole([w EXCEPT !.st = TestedFileSpace(@, b)], n)
<1> DEFINE s == TestedFileSpace(w.st, b)
           v == [w EXCEPT !.st = s]
<1>1. w \in World /\ w.st \in StorageRec /\ is_open(w.st)
  BY Zenon DEF Whole, World
<1>2. /\ s \in StorageRec /\ is_open(s) /\ s.m_num_blocks = w.st.m_num_blocks
      /\ s.m_current_segment_size = w.st.m_current_segment_size
      /\ s.m_block_fd_list = w.st.m_block_fd_list /\ s.m_segment_capacity = w.st.m_segment_capacity
  BY ZenonT(60), <1>1 DEF StorageRec, is_open, TestedFileSpace
<1> HIDE DEF s
<1>3. v \in World /\ v.st = s /\ v.files = w.files /\ v.mapped = w.mapped
  BY ZenonT(60), <1>1, <1>2, ObjectReplaced
<1> HIDE DEF v
<1>4. Whole(v, n)
  BY Zenon, <1>2, <1>3 DEF Whole
<1> QED BY Zenon, <1>4 DEF v, s

\* The loop of priv_extend maps new full files behind the ones there are.
LEMMA ExtendedWhole ==
    ASSUME NEW w, NEW n \in Nat, Whole(w, n), NEW k \in Nat, NEW c \in 1 .. MostBlocks,
           w.st.m_segment_capacity = c * k_block_size, n + k <= c
    PROVE  Whole(Extended(w, k), n + k)
<1>1. k_block_size \in Nat \ {0}
  BY Zenon, StorageAssumption
<1>2. /\ n * k_block_size \in Nat /\ k * k_block_size \in Nat
      /\ (n + k) * k_block_size = n * k_block_size + k * k_block_size
  BY <1>1, Products
<1>3. /\ w \in World /\ w.st \in StorageRec /\ is_open(w.st) /\ w.st.m_num_blocks = n
      /\ w.st.m_current_segment_size = n * k_block_size
      /\ w.st.m_block_fd_list = 0 .. n - 1 /\ w.mapped.blocks = 0 .. n - 1
      /\ w.mapped \in [blocks : SUBSET Nat, prot : {"none", "r", "rw"}] /\ w.leaked \in BOOLEAN
      /\ w.files \in Seq({"full", "short"}) /\ Len(w.files) = n
      /\ \A i \in 1 .. n : w.files[i] = "full"
  BY Zenon DEF Whole, World
<1> DEFINE new == n .. n + k - 1
           fs == [i \in DOMAIN w.files \cup 1 .. n + k |->
                     IF i - 1 \in new THEN "full" ELSE w.files[i]]
           m == IF k = 0 THEN w.mapped ELSE [blocks |-> w.mapped.blocks \cup new, prot |-> "rw"]
           s == Listed(Counted(w.st, k), new)
           v == Extended(w, k)
<1>5. /\ fs \in Seq({"full", "short"}) /\ Len(fs) = n + k
      /\ \A i \in 1 .. n + k : fs[i] = "full"
  <2>1. DOMAIN w.files \cup 1 .. n + k = 1 .. n + k
    BY <1>3
  <2>2. \A i \in 1 .. n + k : i - 1 \in new \/ i \in 1 .. n
    OBVIOUS
  <2>3. fs \in [1 .. n + k -> {"full", "short"}] /\ \A i \in 1 .. n + k : fs[i] = "full"
    BY Zenon, <1>3, <2>1, <2>2
  <2> HIDE DEF fs
  <2> QED BY <2>3
<1>6. 0 .. n - 1 \cup new = 0 .. n + k - 1
  OBVIOUS
<1>7. m.blocks = 0 .. n + k - 1 /\ m \in [blocks : SUBSET Nat, prot : {"none", "r", "rw"}]
  <2>1. CASE k = 0
    BY <1>3, <2>1
  <2>2. CASE k # 0
    BY <1>3, <1>6, <2>2
  <2> QED BY Zenon, <2>1, <2>2
<1>8. /\ s \in StorageRec /\ s.m_num_blocks = n + k
      /\ s.m_current_segment_size = (n + k) * k_block_size
      /\ s.m_block_fd_list = 0 .. n + k - 1
      /\ s.m_segment_capacity = c * k_block_size /\ SameUse(w.st, s)
  <2>1. w.st.m_block_fd_list \cup new = 0 .. n + k - 1 /\ 0 .. n + k - 1 \in SUBSET Nat
    BY <1>3, <1>6
  <2> DEFINE u == Counted(w.st, k)
  <2>2. /\ u \in StorageRec /\ SameUse(w.st, u) /\ u.m_num_blocks = n + k
        /\ u.m_current_segment_size = n * k_block_size + k * k_block_size
        /\ u.m_block_fd_list = w.st.m_block_fd_list
    BY <1>3, CountedIs, ZenonT(30)
  <2> HIDE DEF u, new
  <2>3. new \in SUBSET Nat
    BY DEF new
  <2>4. s \in StorageRec /\ SameUse(u, s) /\ s.m_num_blocks = u.m_num_blocks
        /\ s.m_current_segment_size = u.m_current_segment_size
        /\ s.m_block_fd_list = 0 .. n + k - 1
    BY ZenonT(60), <2>1, <2>2, <2>3, ListedIs DEF u
  <2> HIDE DEF s
  <2> QED BY Zenon, <1>2, <2>2, <2>4 DEF SameUse
<1>9. is_open(s)
  <2>1. n > 0 /\ n * k_block_size > 0 /\ 0 .. n + k - 1 # {}
    BY <1>3 DEF is_open
  <2> HIDE DEF s
  <2> QED BY <1>2, <1>3, <1>8, <2>1 DEF is_open, SameUse
<1> HIDE DEF s, m, fs, new
<1> DEFINE a == [w EXCEPT !.files = fs]
           b == [a EXCEPT !.mapped = m]
<1>10. a \in World /\ a.st = w.st /\ a.files = fs /\ a.mapped = w.mapped
  BY ZenonT(60), <1>3, <1>5, FilesReplaced
<1> HIDE DEF a
<1>11. b \in World /\ b.st = w.st /\ b.files = fs /\ b.mapped = m
  BY ZenonT(60), <1>7, <1>10, MapReplaced
<1> HIDE DEF b
<1>12. v = [b EXCEPT !.st = s]
  <2>1. v = [b EXCEPT !.st = Listed(Counted(b.st, k), new)]
    <3>1. v = [[a EXCEPT !.mapped = IF k = 0 THEN @
                                    ELSE [blocks |-> @.blocks \cup new, prot |-> "rw"]]
                 EXCEPT !.st = Listed(Counted(@, k), new)]
      BY ZenonT(60), <1>3 DEF Extended, a, fs, new
    <3> HIDE DEF v
    <3> QED BY Zenon, <1>10, <3>1 DEF b, m
  <2> HIDE DEF v
  <2> QED BY Zenon, <1>11, <2>1 DEF s
<1> HIDE DEF v
<1>13. v \in World /\ v.st = s /\ v.files = fs /\ v.mapped = m
  BY Zenon, <1>8, <1>11, <1>12, ObjectReplaced
<1> QED BY <1>5, <1>7, <1>8, <1>9, <1>13 DEF Whole, v

\* A round of that loop that fails leaves at most one more file.
LEMMA RoundFails ==
    ASSUME NEW w, NEW n \in Nat, Whole(w, n), n + 1 <= MostBlocks,
           NEW outcome \in NewMapOutcome \ {"ok"}
    PROVE  LET f == priv_create_new_map(w, n, outcome)
           IN  FilesFit(f) /\ is_open(f.st)
<1>1. w \in World /\ is_open(w.st) /\ w.files \in Seq({"full", "short"}) /\ Len(w.files) = n
  BY Zenon DEF Whole, World
<1>2. ASSUME NEW x \in {"full", "short"}
      PROVE  LET v == [w EXCEPT !.files = WithFile(w.files, n, x)]
             IN  FilesFit(v) /\ v.st = w.st
  <2> DEFINE fs == WithFile(w.files, n, x)
  <2>1. fs = Append(w.files, x)
    BY <1>1 DEF WithFile
  <2>2. fs \in Seq({"full", "short"}) /\ Len(fs) = n + 1
    BY <1>1, <2>1
  <2> HIDE DEF fs
  <2> QED BY Zenon, <1>1, <2>2 DEF FilesFit, World, fs
<1>3. MostBlocks \in Nat
  BY StorageAssumption, Division DEF MostBlocks
<1>4. CASE outcome = "create_file"
  BY <1>1, <1>3, <1>4 DEF priv_create_new_map, FilesFit
<1>5. CASE outcome = "extend_file_size"
  BY Zenon, <1>1, <1>2, <1>5 DEF priv_create_new_map
<1>6. CASE outcome = "map_file"
  BY Zenon, <1>1, <1>2, <1>6 DEF priv_create_new_map
<1> QED BY Zenon, <1>4, <1>5, <1>6 DEF NewMapOutcome

-----------------------------------------------------------------------------
(* The operations. *)

\* What an operation begins with.
LEMMA NowIs ==
    ASSUME StorageInv
    PROVE  /\ FilesFit(Now) /\ Now.st = st /\ Now.files = files /\ Now.mapped = mapped
           /\ IF is_open(st) THEN Whole(Now, st.m_num_blocks) ELSE mapped = NotMapped
           /\ is_open(st) => st.m_num_blocks \in Nat \ {0}
<1>1. FilesFit(Now) /\ Now.st = st /\ Now.files = files /\ Now.mapped = mapped
  BY Zenon DEF Now, FilesFit, World, StorageInv, StorageTypeOK
<1>2. CASE ~is_open(st)
  BY Zenon, <1>1, <1>2 DEF StorageInv, OpenIsMapped
<1>3. CASE is_open(st)
  <2>1. st.m_num_blocks \in Nat \ {0}
    BY <1>3 DEF is_open, StorageInv, StorageTypeOK, StorageRec
  <2>2. PICK c \in 1 .. MostBlocks : st.m_segment_capacity = c * k_block_size
    BY Zenon, <1>3 DEF StorageInv
  <2>3. c \in Nat /\ k_block_size \in Nat \ {0}
    BY StorageAssumption, Division DEF MostBlocks
  <2>4. st.m_num_blocks * k_block_size <= c * k_block_size
    BY Zenon, <1>3, <2>2 DEF StorageInv, OpenIsMapped
  <2>5. st.m_num_blocks <= c
    BY <2>1, <2>3, <2>4, Products
  <2>6. Whole(Now, st.m_num_blocks)
    <3>1. /\ st.m_current_segment_size = st.m_num_blocks * k_block_size
          /\ st.m_block_fd_list = 0 .. st.m_num_blocks - 1
          /\ mapped.blocks = 0 .. st.m_num_blocks - 1 /\ Len(files) = st.m_num_blocks
          /\ \A i \in 1 .. st.m_num_blocks : files[i] = "full"
      BY Zenon, <1>3 DEF StorageInv, OpenIsMapped
    <3> QED BY Zenon, <1>1, <1>3, <2>2, <2>5, <3>1 DEF Whole, FilesFit
  <2> QED BY Zenon, <1>1, <1>3, <2>1, <2>6
<1> QED BY Zenon, <1>2, <1>3

\* A new object has nothing.
LEMMA FreshIs ==
    ASSUME NEW known \in BOOLEAN
    PROVE  LET s == Fresh(known)
           IN  /\ s \in StorageRec /\ ~is_open(s)
               /\ s.m_num_blocks = 0 /\ s.m_current_segment_size = 0 /\ s.m_block_fd_list = {}
BY ZenonT(60) DEF Fresh, Broken, Cleared, StorageRec, is_open

\* The constructor's object is not open, so nothing may be mapped.
LEMMA FreshEnds ==
    ASSUME NEW known \in BOOLEAN, NEW fs \in Seq({"full", "short"}), Len(fs) <= MostBlocks,
           st' = Fresh(known), files' = fs, mapped' = NotMapped, leaked' \in BOOLEAN
    PROVE  StorageInv'
<1>1. /\ st' \in StorageRec /\ ~is_open(st')
      /\ st'.m_num_blocks = 0 /\ st'.m_current_segment_size = 0 /\ st'.m_block_fd_list = {}
  BY Zenon, FreshIs
<1>2. NotMapped \in [blocks : SUBSET Nat, prot : {"none", "r", "rw"}]
  BY Zenon DEF NotMapped
<1> QED BY Zenon, <1>1, <1>2 DEF StorageInv, StorageTypeOK, OpenIsMapped

\* The invariant holds at first.
LEMMA StorageInitInv == StorageInit => StorageInv
<1>1. MostBlocks \in Nat
  BY StorageAssumption, Division DEF MostBlocks
<1> SUFFICES ASSUME StorageInit PROVE StorageInv
  OBVIOUS
<1>2. PICK known \in BOOLEAN : st = Fresh(known)
  BY Zenon DEF StorageInit
<1>3. /\ st \in StorageRec /\ ~is_open(st)
      /\ st.m_num_blocks = 0 /\ st.m_current_segment_size = 0 /\ st.m_block_fd_list = {}
  BY Zenon, <1>2, FreshIs
<1>4. NotMapped \in [blocks : SUBSET Nat, prot : {"none", "r", "rw"}]
  BY Zenon DEF NotMapped
<1>5. files = <<>> /\ mapped = NotMapped /\ leaked = FALSE
  BY Zenon DEF StorageInit
<1>6. StorageTypeOK /\ Len(files) <= MostBlocks
  <2>1. Len(files) <= MostBlocks
    BY <1>1, <1>5, NoFiles
  <2> QED BY Zenon, <1>3, <1>4, <1>5, <2>1, NoFiles DEF StorageTypeOK
<1> QED BY Zenon, <1>3, <1>5, <1>6 DEF StorageInv, OpenIsMapped

\* A destructor and the next constructor keep the invariant.
LEMMA ConstructInv ==
    ASSUME StorageInv, NEW known \in BOOLEAN, Construct(known)
    PROVE  StorageInv'
<1>1. PICK synced \in BOOLEAN, succeeded \in BOOLEAN :
         Becomes([Destructed(Now, synced, succeeded) EXCEPT !.st = Fresh(known)])
  BY Zenon DEF Construct
<1> DEFINE w == Destructed(Now, synced, succeeded)
<1>2. w \in World /\ w.files = files /\ w.mapped = NotMapped
  <2>1. CASE ~is_open(st)
    BY Zenon, <2>1, NowIs DEF Destructed, FilesFit
  <2>2. CASE is_open(st) /\ synced
    <3>1. NotMapped \in [blocks : SUBSET Nat, prot : {"none", "r", "rw"}]
      BY Zenon DEF NotMapped
    <3> QED BY ZenonT(60), <2>2, <3>1, NowIs DEF Destructed, FilesFit, World
  <2>3. CASE is_open(st) /\ ~synced
    BY Zenon, <2>3, NowIs, ReleaseIs DEF Destructed, FilesFit
  <2> QED BY Zenon, <2>1, <2>2, <2>3
<1> HIDE DEF w
<1>3. st' = Fresh(known) /\ files' = files /\ mapped' = NotMapped /\ leaked' = w.leaked
  BY Zenon, <1>1, <1>2 DEF Becomes, World, w
<1>4. files \in Seq({"full", "short"}) /\ Len(files) <= MostBlocks /\ w.leaked \in BOOLEAN
  BY Zenon, <1>2 DEF StorageInv, StorageTypeOK, World
<1> QED BY Zenon, <1>3, <1>4, FreshEnds

\* create keeps the invariant, wherever it fails.
LEMMA CreateInv ==
    ASSUME StorageInv, NEW request \in Capacities, request <= OpenCapacity, Create(request)
    PROVE  StorageInv'
<1> DEFINE w == [Now EXCEPT !.files = <<>>]
           P(header) == [w EXCEPT !.st = InUse(Prepared(@, request, header), FALSE)]
           D(header) == [priv_create_new_map(P(header), 0, "ok") EXCEPT !.st = Counted(@, 1)]
<1>1. Usable /\ request \in Nat \ {0} /\ MostBlocks \in Nat
  BY StorageAssumption, Division DEF Create, MostBlocks
<1>2. /\ w \in World /\ FilesFit(w) /\ w.files = <<>> /\ w.st = st /\ w.mapped = NotMapped
      /\ w.leaked = leaked
  <2>1. Now \in World /\ Now.st = st /\ Now.mapped = NotMapped /\ Now.leaked = leaked
    BY Zenon, <1>1, NowIs DEF FilesFit, Usable, Now
  <2>2. /\ w \in World /\ w.files = <<>> /\ w.st = Now.st /\ w.mapped = Now.mapped
        /\ w.leaked = Now.leaked
    BY Zenon, <2>1, NoFiles, FilesReplaced 
  <2> HIDE DEF w
  <2> QED BY <1>1, <2>1, <2>2, NoFiles DEF FilesFit
<1>3. PICK c \in 1 .. MostBlocks : round_up(request) = c * k_block_size
  BY Zenon, <1>1, RoundedUp
<1>4. ASSUME NEW header \in BOOLEAN
      PROVE  /\ Whole(D(header), 1)
             /\ \A outcome \in NewMapOutcome \ {"ok"} :
                   /\ FilesFit(priv_create_new_map(P(header), 0, outcome))
                   /\ priv_create_new_map(P(header), 0, outcome).mapped = NotMapped
  <2>1. c * k_block_size \in Nat
    BY <1>3, StorageAssumption, Division DEF MostBlocks
  <2>2. Begun(P(header), <<>>, c * k_block_size)
    <3> HIDE DEF w
    <3> QED BY ZenonT(60), <1>1, <1>2, <1>3, <2>1, NoFiles, BegunIs 
  <2> HIDE DEF P
  <2> QED BY Zenon, <2>2, FirstMap
<1> HIDE DEF w, P, D
<1>5. PICK header \in BOOLEAN, can_free \in BOOLEAN :
         \/ Becomes(w)
         \/ Becomes(Abandon(w))
         \/ \E outcome \in NewMapOutcome \ {"ok"} :
               Becomes(Abandon(priv_create_new_map(P(header), 0, outcome)))
         \/ Becomes([D(header) EXCEPT !.st = TestedFileSpace(@, can_free)])
         \/ \E released \in BOOLEAN : Becomes(Abandon(priv_release_segment(D(header), released)))
  BY ZenonT(60) DEF Create, w, P, D
<1>6. CASE Becomes(w)
  <2>1. st' = st /\ files' = <<>> /\ mapped' = NotMapped /\ leaked' = leaked
    BY Zenon, <1>2, <1>6 DEF Becomes
  <2>2. ~is_open(st) /\ st.m_num_blocks = 0 /\ st.m_current_segment_size = 0 /\ st.m_block_fd_list = {}
    BY Zenon, <1>1 DEF StorageInv, Usable
  <2>3. StorageTypeOK' /\ Len(files') <= MostBlocks
    <3>1. NotMapped \in [blocks : SUBSET Nat, prot : {"none", "r", "rw"}]
      BY Zenon DEF NotMapped
    <3> QED BY <1>1, <2>1, <3>1 DEF StorageInv, StorageTypeOK
  <2> QED BY Zenon, <2>1, <2>2, <2>3 DEF StorageInv, OpenIsMapped
<1>7. CASE Becomes(Abandon(w))
  BY Zenon, <1>2, <1>7, AbandonIs, GivenUp DEF FilesFit
<1>8. CASE \E outcome \in NewMapOutcome \ {"ok"} :
              Becomes(Abandon(priv_create_new_map(P(header), 0, outcome)))
  <2>1. PICK outcome \in NewMapOutcome \ {"ok"} :
           Becomes(Abandon(priv_create_new_map(P(header), 0, outcome)))
    BY Zenon, <1>8
  <2> DEFINE v == priv_create_new_map(P(header), 0, outcome)
  <2>2. FilesFit(v) /\ v.mapped = NotMapped
    BY Zenon, <1>4
  <2> HIDE DEF v
  <2>3. FilesFit(Abandon(v)) /\ Abandon(v).mapped = NotMapped /\ Abandon(v).st.m_broken
    BY Zenon, <2>2, AbandonIs DEF FilesFit
  <2> QED BY Zenon, <2>1, <2>3, GivenUp DEF v
<1>9. CASE Becomes([D(header) EXCEPT !.st = TestedFileSpace(@, can_free)])
  BY Zenon, <1>4, <1>9, TestedWhole, EndsWhole
<1>10. CASE \E released \in BOOLEAN : Becomes(Abandon(priv_release_segment(D(header), released)))
  <2>1. FilesFit(D(header)) /\ is_open(D(header).st)
    <3>1. Whole(D(header), 1) /\ 1 <= MostBlocks
      BY <1>1, <1>3, <1>4
    <3> QED BY Zenon, <3>1 DEF Whole, FilesFit
  <2> QED BY Zenon, <1>10, <2>1, FailureEnds
<1> QED BY Zenon, <1>5, <1>6, <1>7, <1>8, <1>9, <1>10

\* open keeps the invariant, wherever it fails.
LEMMA OpenInv ==
    ASSUME StorageInv, NEW read_only \in BOOLEAN, Open(read_only)
    PROVE  StorageInv'
<1> DEFINE R(header) == [Now EXCEPT !.st = InUse(Prepared(@, ReservedFor(read_only), header),
                                                 read_only)]
           T(w, b) == IF read_only THEN w ELSE [w EXCEPT !.st = TestedFileSpace(@, b)]
           N == Len(files)
<1>0. Usable
  BY Zenon DEF Open
<1>1. MostBlocks \in Nat /\ k_block_size \in Nat \ {0} /\ OpenCapacity \in Nat \ {0}
  BY StorageAssumption, Division DEF MostBlocks
<1>2. /\ Now \in World /\ FilesFit(Now) /\ Now.mapped = NotMapped /\ N \in Nat /\ N <= MostBlocks
      /\ files \in Seq({"full", "short"}) /\ Now.files = files /\ Now.st = st
  BY <1>0, NowIs DEF World, FilesFit, Usable, Now, StorageInv, StorageTypeOK
<1> DEFINE cap == round_up(ReservedFor(read_only))
<1>3. /\ ReservedFor(read_only) \in Nat /\ cap \in Nat
      /\ N > 0 => \E c \in 1 .. MostBlocks : N <= c /\ cap = c * k_block_size
  <2>1. CASE read_only
    <3>1. cap = N * k_block_size /\ N * k_block_size \in Nat
      BY <1>1, <1>2, <2>1, RoundedWhole DEF ReservedFor
    <3> QED BY <1>1, <1>2, <2>1, <3>1 DEF ReservedFor
  <2>2. CASE ~read_only
    <3>1. ReservedFor(read_only) = OpenCapacity
      BY Zenon, <2>2 DEF ReservedFor
    <3>2. cap = MostBlocks * k_block_size
      BY Zenon, <3>1 DEF round_up, MostBlocks
    <3>3. cap \in Nat
      BY <1>1, <3>2
    <3> HIDE DEF cap
    <3> QED BY <1>1, <1>2, <3>1, <3>2, <3>3
  <2> QED BY Zenon, <2>1, <2>2
<1>4. \A header \in BOOLEAN : Begun(R(header), files, cap)
  BY Zenon, <1>0, <1>2, <1>3, BegunIs
<1> HIDE DEF R, cap
<1>5. ASSUME NEW header \in BOOLEAN, NEW n \in 0 .. N, NEW b \in BOOLEAN,
             Becomes(Abandon(priv_release_segment(WithBlocks(R(header), n, read_only), b)))
      PROVE  StorageInv'
  <2> DEFINE v == WithBlocks(R(header), n, read_only)
  <2>1. n \in Nat /\ (n > 0 => cap > 0)
    <3>1. n \in Nat /\ (n > 0 => N > 0)
      BY <1>2
    <3>2. ASSUME NEW c \in 1 .. MostBlocks PROVE c * k_block_size > 0
      BY <1>1, Products
    <3> QED BY Zenon, <1>3, <3>1, <3>2
  <2>2. /\ v \in World /\ v.files = files
        /\ IF n = 0 THEN v.mapped = NotMapped ELSE v.mapped.blocks = 0 .. n - 1
        /\ n > 0 /\ cap > 0 => is_open(v.st)
    <3>1. BlocksMapped(v, files, n, cap)
      BY Zenon, <1>3, <1>4, <2>1, NewMapIs
    <3> HIDE DEF v
    <3> QED BY Zenon, <3>1 DEF BlocksMapped
  <2> HIDE DEF v
  <2>3. FilesFit(v) /\ (is_open(v.st) \/ v.mapped = NotMapped)
    BY <1>2, <2>1, <2>2 DEF FilesFit
  <2> QED BY Zenon, <1>5, <2>3, FailureEnds DEF v
<1>6. PICK header \in BOOLEAN, can_free \in BOOLEAN, good \in 0 .. N :
         /\ Mappable(good)
         /\ \/ Becomes(Abandon(Now))
            \/ \E n \in 0 .. N, b \in BOOLEAN :
                  Becomes(Abandon(priv_release_segment(WithBlocks(R(header), n, read_only), b)))
            \/ Becomes(Abandon(R(header)))
            \/ /\ good = N /\ good > 0
               /\ Becomes(T(WithBlocks(R(header), good, read_only), can_free))
  <2>1. PICK header \in BOOLEAN, can_free \in BOOLEAN, good \in 0 .. N :
         /\ Mappable(good)
         /\ \/ Becomes(Abandon(Now))
            \/ \E b \in BOOLEAN :
                  Becomes(Abandon(priv_release_segment(WithBlocks(R(header), good, read_only), b)))
            \/ \E n \in 0 .. good - 1, b \in BOOLEAN :
                  Becomes(Abandon(priv_release_segment(WithBlocks(R(header), n, read_only), b)))
            \/ Becomes(Abandon(R(header)))
            \/ /\ good = N /\ good > 0
               /\ Becomes(T(WithBlocks(R(header), good, read_only), can_free))
    BY ZenonT(60) DEF Open, R
  <2>2. 0 .. good - 1 \subseteq 0 .. N
    BY <1>2
  <2> HIDE DEF T
  <2> QED BY Zenon, <2>1, <2>2 
<1>7. CASE Becomes(Abandon(Now))
  BY Zenon, <1>2, <1>7, AbandonIs, GivenUp DEF FilesFit
<1>8. CASE \E n \in 0 .. N, b \in BOOLEAN :
              Becomes(Abandon(priv_release_segment(WithBlocks(R(header), n, read_only), b)))
  BY Zenon, <1>5, <1>8
<1>9. CASE Becomes(Abandon(R(header)))
  <2>1. R(header) \in World /\ R(header).files = files /\ R(header).mapped = NotMapped
    BY Zenon, <1>4 DEF Begun
  <2>2. FilesFit(Abandon(R(header))) /\ Abandon(R(header)).mapped = NotMapped
        /\ Abandon(R(header)).st.m_broken
    BY Zenon, <1>2, <2>1, AbandonIs DEF FilesFit
  <2> QED BY Zenon, <1>9, <2>2, GivenUp
<1>10. CASE good = N /\ good > 0 /\ Becomes(T(WithBlocks(R(header), good, read_only), can_free))
  <2>1. \A i \in 1 .. N : files[i] = "full"
    BY Zenon, <1>6, <1>10 DEF Mappable
  <2>2. PICK c \in 1 .. MostBlocks : N <= c /\ cap = c * k_block_size
    BY Zenon, <1>3, <1>10
  <2>3. N \in 1 .. c
    BY <1>1, <1>2, <1>10, <2>2
  <2>4. Whole(WithBlocks(R(header), N, read_only), N)
    BY ZenonT(60), <1>4, <2>1, <2>2, <2>3, MapsAll
  <2>5. Whole(T(WithBlocks(R(header), N, read_only), can_free), N)
    BY Zenon, <1>2, <2>4, TestedWhole
  <2> QED BY Zenon, <1>2, <1>10, <2>5, EndsWhole
<1> QED BY Zenon, <1>6, <1>7, <1>8, <1>9, <1>10

\* extend keeps the invariant, in whatever round it fails.
LEMMA ExtendInv ==
    ASSUME StorageInv, NEW request \in Requests, Extend(request)
    PROVE  StorageInv'
<1>1. /\ MostBlocks \in Nat /\ k_block_size \in Nat \ {0} /\ request \in Nat
  BY StorageAssumption, Division DEF MostBlocks
<1>2. CASE ~is_open(st) \/ st.m_read_only \/ ~Fits(request)
  <2>1. UNCHANGED <<st, files, mapped, leaked>>
    BY Zenon, <1>2 DEF Extend
  <2> QED BY Zenon, <2>1 DEF StorageInv, StorageTypeOK, OpenIsMapped, Usable
<1>3. CASE is_open(st) /\ ~st.m_read_only /\ Fits(request)
  <2> DEFINE n == st.m_num_blocks
  <2>1. Whole(Now, n) /\ n \in Nat \ {0} /\ Now.st = st
    BY Zenon, <1>3, NowIs
  <2>2. PICK c \in 1 .. MostBlocks : n <= c /\ st.m_segment_capacity = c * k_block_size
    BY Zenon, <2>1 DEF Whole
  <2>3. c \in Nat /\ request <= c * k_block_size /\ st.m_current_segment_size = n * k_block_size
    BY <1>1, <1>3, <2>1, <2>2 DEF Fits, Whole
  <2> HIDE DEF n
  <2>4. MissingBlocks(request) \in Nat /\ n + MissingBlocks(request) <= c
    BY Zenon, <1>1, <2>1, <2>2, <2>3, MissingFit
  <2>5. \A k \in 0 .. MissingBlocks(request) : Whole(Extended(Now, k), n + k)
    <3>1. \A k \in 0 .. MissingBlocks(request) : k \in Nat /\ n + k <= c
      BY <1>1, <2>1, <2>3, <2>4
    <3> QED BY Zenon, <2>1, <2>2, <3>1, ExtendedWhole
  <2>6. CASE Becomes(Extended(Now, MissingBlocks(request)))
    <3>1. MissingBlocks(request) \in 0 .. MissingBlocks(request) /\ n + MissingBlocks(request) \in Nat
      BY <2>1, <2>4
    <3> QED BY Zenon, <2>5, <2>6, <3>1, EndsWhole
  <2>7. ASSUME NEW k \in 0 .. MissingBlocks(request) - 1, NEW outcome \in NewMapOutcome \ {"ok"},
               NEW released \in BOOLEAN,
               LET w == Extended(Now, k)
                   f == priv_create_new_map(w, w.st.m_num_blocks, outcome)
               IN  Becomes(Abandon(priv_release_segment(f, released)))
        PROVE  StorageInv'
    <3> DEFINE w == Extended(Now, k)
               f == priv_create_new_map(w, n + k, outcome)
    <3>1. k \in 0 .. MissingBlocks(request) /\ n + k \in Nat /\ n + k + 1 <= MostBlocks
      BY <1>1, <2>1, <2>2, <2>4
    <3>2. Whole(w, n + k) /\ w.st.m_num_blocks = n + k
      BY Zenon, <2>5, <3>1 DEF Whole
    <3> HIDE DEF w
    <3>3. FilesFit(f) /\ is_open(f.st)
      BY Zenon, <3>1, <3>2, RoundFails
    <3>4. Becomes(Abandon(priv_release_segment(f, released)))
      BY Zenon, <2>7, <3>2 DEF w
    <3> HIDE DEF f
    <3> QED BY Zenon, <3>3, <3>4, FailureEnds
  <2> QED BY Zenon, <1>3, <2>6, <2>7 DEF Extend
<1> QED BY Zenon, <1>2, <1>3

\* sync changes protections only.
LEMMA SyncInv ==
    ASSUME StorageInv, Sync
    PROVE  StorageInv'
<1>1. UNCHANGED <<st, files, leaked>>
  BY Zenon DEF Sync
<1>2. /\ mapped' \in [blocks : SUBSET Nat, prot : {"none", "r", "rw"}]
      /\ mapped'.blocks = mapped.blocks
      /\ ~is_open(st) => mapped' = mapped
  <2>1. mapped \in [blocks : SUBSET Nat, prot : {"none", "r", "rw"}]
    BY Zenon DEF StorageInv, StorageTypeOK
  <2>2. CASE mapped' = mapped
    BY Zenon, <2>1, <2>2
  <2>3. CASE is_open(st) /\ \E p \in {"r", "rw"} : mapped' = [mapped EXCEPT !.prot = p]
    BY Zenon, <2>1, <2>3
  <2> QED BY ZenonT(60), <2>2, <2>3 DEF Sync
<1> QED BY Zenon, <1>1, <1>2 DEF StorageInv, StorageTypeOK, OpenIsMapped, Usable

\* release keeps the invariant, whether or not unmapping succeeds.
LEMMA ReleaseInv ==
    ASSUME StorageInv, NEW succeeded \in BOOLEAN, Release(succeeded)
    PROVE  StorageInv'
<1> DEFINE w == priv_release_segment(Now, succeeded)
<1>1. Becomes(w)
  BY Zenon DEF Release
<1>2. CASE is_open(st)
  <2>1. FilesFit(w) /\ w.mapped = NotMapped /\ (w.st.m_broken \/ w.st.m_system_page_size = 0)
    BY Zenon, <1>2, NowIs, ReleaseIs DEF FilesFit
  <2> HIDE DEF w
  <2> QED BY Zenon, <1>1, <2>1, GivenUp
<1>3. CASE ~is_open(st)
  <2>1. UNCHANGED <<st, files, mapped, leaked>>
    BY Zenon, <1>1, <1>3 DEF priv_release_segment, Now, Becomes
  <2> QED BY Zenon, <2>1 DEF StorageInv, StorageTypeOK, OpenIsMapped, Usable
<1> QED BY Zenon, <1>2, <1>3

\* Every step keeps the invariant.  Only create needs the condition.
LEMMA StorageStepInv ==
    ASSUME \A c \in Capacities : c <= OpenCapacity, StorageInv, [StorageNext]_storageVars
    PROVE  StorageInv'
<1>1. CASE UNCHANGED <<st, files, mapped, leaked>>
  BY Zenon, <1>1 DEF StorageInv, StorageTypeOK, OpenIsMapped, Usable
<1>2. CASE \E known \in BOOLEAN : Construct(known)
  BY Zenon, <1>2, ConstructInv
<1>3. CASE \E op \in {"create", "open"} : Refuse(op)
  BY ZenonT(60), <1>1, <1>3 DEF Refuse
<1>4. CASE \E request \in Capacities : Create(request)
  BY Zenon, <1>4, CreateInv
<1>5. CASE \E request \in Requests : Extend(request) \/ FreeRegion(request)
  <2>1. PICK request \in Requests : Extend(request) \/ FreeRegion(request)
    BY Zenon, <1>5
  <2>2. FreeRegion(request) => UNCHANGED <<st, files, mapped, leaked>>
    BY Zenon DEF FreeRegion
  <2> QED BY Zenon, <1>1, <2>1, <2>2, ExtendInv
<1>6. CASE \E read_only \in BOOLEAN : Open(read_only)
  BY <1>6, OpenInv
<1>7. CASE Sync
  BY Zenon, <1>7, SyncInv
<1>8. CASE \E succeeded \in BOOLEAN : Release(succeeded)
  BY <1>8, ReleaseInv
<1>9. CASE UNCHANGED storageVars
  BY Zenon, <1>1, <1>9 DEF storageVars
<1> QED BY ZenonT(60), <1>2, <1>3, <1>4, <1>5, <1>6, <1>7, <1>8, <1>9 DEF StorageNext

\* Every state of the storage satisfies the invariant, if no data store is
\* created with more capacity than open reserves: open does not know the
\* capacity that the store was created with.
THEOREM StorageInvariant ==
    (\A c \in Capacities : c <= OpenCapacity) => (StorageSpec => []StorageInv)
<1> SUFFICES ASSUME \A c \in Capacities : c <= OpenCapacity PROVE StorageSpec => []StorageInv
  OBVIOUS
<1>1. StorageInit => StorageInv
  BY Zenon, StorageInitInv
<1>2. StorageInv /\ [StorageNext]_storageVars => StorageInv'
  BY Zenon, StorageStepInv
<1> QED BY <1>1, <1>2, PTL DEF StorageSpec

\* Under that condition, an open segment is all there and nothing stays mapped
\* behind an object that is not open: for every block size, capacity and
\* request, and wherever a system call fails.
THEOREM OpenIsMappedAlways ==
    (\A c \in Capacities : c <= OpenCapacity) => (StorageSpec => []OpenIsMapped)
<1> SUFFICES ASSUME \A c \in Capacities : c <= OpenCapacity PROVE StorageSpec => []OpenIsMapped
  OBVIOUS
<1>1. StorageSpec => []StorageInv
  BY Zenon, StorageInvariant
<1>2. StorageInv => OpenIsMapped
  BY Zenon DEF StorageInv
<1> QED BY <1>1, <1>2, PTL

\* Under that condition, what a successful release leaves on disk is exactly the
\* blocks that the segment had, each of full size.
THEOREM ReleasedCanAlwaysBeOpened ==
    (\A c \in Capacities : c <= OpenCapacity) => (StorageSpec => ReleasedCanBeOpened)
<1> SUFFICES ASSUME \A c \in Capacities : c <= OpenCapacity PROVE StorageSpec => ReleasedCanBeOpened
  OBVIOUS
<1>1. StorageSpec => []StorageInv
  BY StorageInvariant
<1>2. ASSUME StorageInv, [StorageNext]_storageVars
      PROVE  [result' = [op |-> "release", ok |-> TRUE] =>
                 /\ Len(files') = st.m_num_blocks
                 /\ \A i \in 1 .. Len(files') : files'[i] = "full"]_storageVars
  <2> SUFFICES ASSUME StorageNext, result' = [op |-> "release", ok |-> TRUE]
               PROVE  /\ Len(files') = st.m_num_blocks
                      /\ \A i \in 1 .. Len(files') : files'[i] = "full"
    BY Zenon, <1>2
  <2>1. PICK succeeded \in BOOLEAN : Release(succeeded) /\ is_open(st)
    <3>1. \A ok : /\ ~Returns("construct", ok) /\ ~Returns("create", ok) /\ ~Returns("open", ok)
                  /\ ~Returns("extend", ok) /\ ~Returns("sync", ok) /\ ~Returns("free_region", ok)
                  /\ Returns("release", ok) => ok = TRUE
      BY Zenon DEF Returns
    <3>2. \A known \in BOOLEAN : ~Construct(known)
      BY Zenon, <3>1 DEF Construct
    <3>3. \A op \in {"create", "open"} : ~Refuse(op)
      BY Zenon, <3>1 DEF Refuse
    <3>4. \A request \in Capacities : ~Create(request)
      BY ZenonT(60), <3>1 DEF Create
    <3>5. \A request \in Requests : ~Extend(request) /\ ~FreeRegion(request)
      BY Zenon, <3>1 DEF Extend, FreeRegion
    <3>6. \A read_only \in BOOLEAN : ~Open(read_only)
      BY ZenonT(60), <3>1 DEF Open
    <3>7. ~Sync
      BY Zenon, <3>1 DEF Sync
    <3>8. PICK succeeded \in BOOLEAN : Release(succeeded)
      BY Zenon, <3>2, <3>3, <3>4, <3>5, <3>6, <3>7 DEF StorageNext
    <3>9. is_open(st)
      BY Zenon, <3>1, <3>8 DEF Release
    <3> QED BY Zenon, <3>8, <3>9
  <2>2. files' = files
    <3>1. Becomes(priv_release_segment(Now, succeeded))
      BY Zenon, <2>1 DEF Release
    <3>2. priv_release_segment(Now, succeeded).files = files
      BY Zenon, <1>2, NowIs, ReleaseIs DEF FilesFit
    <3> QED BY Zenon, <3>1, <3>2 DEF Becomes
  <2> QED BY Zenon, <1>2, <2>1, <2>2 DEF StorageInv, OpenIsMapped
<1> QED BY <1>1, <1>2, PTL DEF StorageSpec, ReleasedCanBeOpened

=============================================================================
