---------------------------- MODULE ProgramProofs ----------------------------
(***************************************************************************)
(* Proofs about what a program holds of a store, for any number of         *)
(* threads, names, types and blocks: the object directories agree and      *)
(* memory is accounted for; every open kernel has one manager, and a call  *)
(* is in the kernel of its manager; memory goes back to the kernel or heap *)
(* it is from; a store open for writing through the C interface has one    *)
(* writer.                                                                 *)
(***************************************************************************)
EXTENDS NamedObjects, Manager, CApi, TLAPS

-----------------------------------------------------------------------------
(* Objects and their directories.                                          *)

\* get_instance_kind finds the directory that has the offset.
LEMMA KindOf ==
    ASSUME TypeOK, EntriesApart, NEW k \in Kinds, NEW e \in directory[k]
    PROVE  get_instance_kind(e.offset) = k
<1> DEFINE has(l) == \E f \in directory[l] : f.offset = e.offset
<1>1. has(k)
  OBVIOUS
<1>2. \A l \in Kinds : has(l) => l = k
  BY Zenon DEF EntriesApart
<1> HIDE DEF has
<1>3. k \in {"named", "unique", "anonymous"}
  BY Zenon DEF Kinds
<1>4. get_instance_kind(e.offset) = CASE has("named") -> "named"
                                      [] has("unique") -> "unique"
                                      [] has("anonymous") -> "anonymous"
                                      [] OTHER -> None
  BY Zenon DEF get_instance_kind, has
<1>5. CASE k = "named"
  <2>1. has("named") /\ ~has("unique") /\ ~has("anonymous")
    BY Zenon, <1>1, <1>2, <1>5 DEF Kinds
  <2> QED BY Zenon, <1>4, <1>5, <2>1
<1>6. CASE k = "unique"
  <2>1. ~has("named") /\ has("unique") /\ ~has("anonymous")
    BY Zenon, <1>1, <1>2, <1>6 DEF Kinds
  <2> QED BY Zenon, <1>4, <1>6, <2>1
<1>7. CASE k = "anonymous"
  <2>1. ~has("named") /\ ~has("unique") /\ has("anonymous")
    BY Zenon, <1>1, <1>2, <1>7 DEF Kinds
  <2> QED BY Zenon, <1>4, <1>7, <2>1
<1> QED BY Zenon, <1>3, <1>5, <1>6, <1>7

\* An offset that is in no directory has no kind.
LEMMA NoKind ==
    ASSUME NEW b, ~Entered(b)
    PROVE  get_instance_kind(b) = None
<1> DEFINE has(l) == \E f \in directory[l] : f.offset = b
<1>1. ~has("named") /\ ~has("unique") /\ ~has("anonymous")
  BY Zenon DEF Entered, Kinds
<1> HIDE DEF has
<1>2. get_instance_kind(b) = CASE has("named") -> "named"
                               [] has("unique") -> "unique"
                               [] has("anonymous") -> "anonymous"
                               [] OTHER -> None
  BY Zenon DEF get_instance_kind, has
<1> QED BY Zenon, <1>1, <1>2

\* priv_remove_attr_object_no_mutex looks at one directory after the other and
\* erases from the first that has the offset: no directory keeps it.
LEMMA RemovedFromAll ==
    ASSUME TypeOK, EntriesApart, NEW b \in Blocks
    PROVE  priv_remove_attr_object(b) =
               [k \in Kinds |-> {e \in directory[k] : e.offset # b}]
<1>1. CASE Entered(b)
  <2>1. PICK k \in Kinds : \E e \in directory[k] : e.offset = b
    BY Zenon, <1>1 DEF Entered
  <2>2. get_instance_kind(b) = k
    BY Zenon, <2>1, KindOf
  <2>3. k # None
    BY Zenon, NoneAssumption
  <2>4. \A l \in Kinds \ {k} : {e \in directory[l] : e.offset # b} = directory[l]
    BY ZenonT(60), <2>1 DEF EntriesApart
  <2> QED BY Zenon, <2>2, <2>3, <2>4 DEF priv_remove_attr_object, TypeOK
<1>2. CASE ~Entered(b)
  <2>1. get_instance_kind(b) = None
    BY Zenon, <1>2, NoKind
  <2>2. \A l \in Kinds : {e \in directory[l] : e.offset # b} = directory[l]
    BY Zenon, <1>2 DEF Entered
  <2> QED BY Zenon, <2>1, <2>2 DEF priv_remove_attr_object, TypeOK
<1> QED BY Zenon, <1>1, <1>2

\* The invariant is about all variables but returned.
LEMMA SameObjects ==
    ASSUME ObjectsInv, UNCHANGED <<directory, mem, pc, ptr, abandoned>>
    PROVE  ObjectsInv'
BY DEF ObjectsInv, TypeOK, EntriesApart, Entered, CallOK, BlockOK, Held

\* What an entry of a block says of it.
LEMMA EntryOf ==
    ASSUME TypeOK, NEW k \in Kinds, NEW e \in directory[k]
    PROVE  e \in Entry /\ e.offset \in Blocks /\ Entered(e.offset)
BY DEF TypeOK, Entry, Entered

\* Registration under the mutex: a name that is not in use and a free block.
LEMMA RegisterKeeps ==
    ASSUME ObjectsInv, NEW t \in Threads, pc[t] = "idle",
           NEW kind \in Kinds, NEW name \in Names, NEW type \in Types, NEW length \in Lengths,
           Register(t, kind, name, type, length)
    PROVE  ObjectsInv'
<1> USE DEF ObjectsInv
<1>1. PICK b \in Blocks :
          /\ mem[b] = "free"
          /\ mem' = [mem EXCEPT ![b] = "raw"]
          /\ directory' = [directory EXCEPT ![kind] = @ \cup
                 {[name |-> KeyOf(kind, name, type), type |-> type, offset |-> b, length |-> length]}]
          /\ pc' = [pc EXCEPT ![t] = "constructing"]
          /\ ptr' = [ptr EXCEPT ![t] = b]
          /\ UNCHANGED abandoned
  BY Zenon DEF Register
<1>2. PICK n : n = [name |-> KeyOf(kind, name, type), type |-> type, offset |-> b, length |-> length]
  BY Zenon 
<1>3. n \in Entry /\ n.offset = b /\ n.name = KeyOf(kind, name, type)
  <2>1. KeyOf(kind, name, type) \in Names \cup Types \cup {None}
    BY Zenon DEF KeyOf, Kinds
  <2> QED BY Zenon, <1>2, <2>1, LengthAssumption DEF Entry
<1>4. directory' = [directory EXCEPT ![kind] = @ \cup {n}]
  BY Zenon, <1>1, <1>2
<1>5. ~Entered(b) /\ \A u \in Threads : ptr[u] # b
  <2>1. ~Entered(b)
    BY Zenon, <1>1 DEF EntriesApart
  <2>2. ASSUME NEW u \in Threads, ptr[u] = b  PROVE FALSE
    BY ZenonT(60), <1>1, <2>1, <2>2, NoneAssumption DEF CallOK, TypeOK
  <2> QED BY Zenon, <2>1, <2>2
<1>6. b \notin abandoned
  BY Zenon, <1>1 DEF BlockOK
<1>7. TypeOK'
  BY <1>1, <1>3, <1>4 DEF TypeOK
<1>8. \A k \in Kinds : \A e \in directory'[k] : e \in directory[k] \/ (k = kind /\ e = n)
  BY Zenon, <1>4 DEF TypeOK
<1>9. \A c : Entered(c)' <=> Entered(c) \/ c = b
  <2>1. \A k \in Kinds : directory[k] \subseteq directory'[k]
    BY Zenon, <1>4 DEF TypeOK
  <2>2. n \in directory'[kind]
    BY Zenon, <1>4 DEF TypeOK
  <2> QED BY Zenon, <1>3, <1>8, <2>1, <2>2 DEF Entered
<1>10. EntriesApart'
  <2>1. ASSUME NEW k \in Kinds, NEW l \in Kinds, NEW e \in directory'[k], NEW f \in directory'[l],
               e.offset = f.offset
        PROVE  k = l /\ e = f
    <3>1. \A i \in Kinds : \A g \in directory[i] : g.offset # b
      BY Zenon, <1>5 DEF Entered
    <3> QED BY <1>3, <1>8, <2>1, <3>1 DEF EntriesApart
  <2>2. ASSUME NEW k \in Kinds \ {"anonymous"}, NEW e \in directory'[k], NEW f \in directory'[k],
               e.name = f.name
        PROVE  e = f
    <3>1. k = kind => \A g \in directory[k] : g.name # n.name
      BY Zenon, <1>3 DEF Register, find
    <3> QED BY <1>8, <2>2, <3>1 DEF EntriesApart
  <2>3. ASSUME NEW c \in Blocks, Entered(c)'  PROVE mem'[c] # "free"
    BY Zenon, <1>1, <1>9, <2>3 DEF EntriesApart, TypeOK
  <2> QED BY Zenon, <2>1, <2>2, <2>3 DEF EntriesApart
<1>11. ASSUME NEW u \in Threads  PROVE CallOK(u)'
  <2>1. CASE u = t
    BY ZenonT(60), <1>1, <1>5, <1>6, <1>9, <2>1, NoneAssumption DEF CallOK, TypeOK
  <2>2. CASE u # t
    <3>1. pc'[u] = pc[u] /\ ptr'[u] = ptr[u] /\ ptr[u] # b
      BY Zenon, <1>1, <1>5, <2>2 DEF TypeOK
    <3>2. pc[u] # "idle" => mem'[ptr[u]] = mem[ptr[u]]
      BY ZenonT(60), <1>1, <3>1 DEF TypeOK, CallOK
    <3>3. \A v \in Threads \ {u} : ptr[u] # None => ptr'[u] # ptr'[v]
      BY ZenonT(60), <1>1, <3>1 DEF TypeOK, CallOK
    <3> QED BY <1>1, <1>9, <3>1, <3>2, <3>3 DEF CallOK, TypeOK
  <2> QED BY Zenon, <2>1, <2>2
<1>12. ASSUME NEW c \in Blocks  PROVE BlockOK(c)'
  <2>1. Held \subseteq Held'
    <3>1. \A u \in Threads : pc[u] \in {"destructing", "freeing"} => pc'[u] = pc[u] /\ ptr'[u] = ptr[u]
      BY Zenon, <1>1 DEF TypeOK
    <3> QED BY Zenon, <3>1 DEF Held
  <2> QED BY Zenon, <1>1, <1>6, <1>9, <2>1 DEF BlockOK, TypeOK
<1> QED BY Zenon, <1>7, <1>10, <1>11, <1>12

\* The section of a destruction, or of a constructor that threw: the entry
\* leaves the directories and the block stays with the call.
LEMMA TakeKeeps ==
    ASSUME ObjectsInv, NEW t \in Threads, NEW b \in Blocks, NEW next,
           directory' = priv_remove_attr_object(b),
           pc' = [pc EXCEPT ![t] = next], ptr' = [ptr EXCEPT ![t] = b],
           UNCHANGED <<mem, abandoned>>,
           next = "destructing" \/ next = "freeing",
           next = "destructing" => mem[b] = "built", Entered(b),
           \A u \in Threads \ {t} : ptr[u] # b,
           pc[t] \in {"idle", "constructing"}
    PROVE  ObjectsInv'
<1> USE DEF ObjectsInv
<1>1. directory' = [k \in Kinds |-> {e \in directory[k] : e.offset # b}]
  BY Zenon, RemovedFromAll
<1>2. TypeOK'
  BY ZenonT(60), <1>1 DEF TypeOK
<1>3. \A c : Entered(c)' <=> Entered(c) /\ c # b
  BY <1>1 DEF Entered
<1>4. mem[b] # "free" /\ b \notin abandoned
  BY Zenon DEF EntriesApart, BlockOK
<1>5. EntriesApart'
  BY <1>1, <1>3 DEF EntriesApart
<1>6. ASSUME NEW u \in Threads  PROVE CallOK(u)'
  <2>1. CASE u = t
    BY ZenonT(60), <1>3, <1>4, <2>1, NoneAssumption DEF CallOK, TypeOK
  <2>2. CASE u # t
    BY ZenonT(60), <1>3, <2>2 DEF CallOK, TypeOK
  <2> QED BY Zenon, <2>1, <2>2
<1>7. Held \subseteq Held' /\ b \in Held'
  <2>1. \A u \in Threads : pc[u] \in {"destructing", "freeing"} => pc'[u] = pc[u] /\ ptr'[u] = ptr[u]
    BY Zenon DEF TypeOK
  <2>2. pc'[t] \in {"destructing", "freeing"} /\ ptr'[t] = b
    BY Zenon DEF TypeOK
  <2> QED BY <2>1, <2>2 DEF Held
<1>8. ASSUME NEW c \in Blocks  PROVE BlockOK(c)'
  BY Zenon, <1>3, <1>4, <1>7 DEF BlockOK
<1> QED BY Zenon, <1>2, <1>5, <1>6, <1>8

\* A block that is built and entered belongs to no call.
LEMMA NobodysBlock ==
    ASSUME ObjectsInv, NEW b \in Blocks, Entered(b), mem[b] = "built", NEW u \in Threads
    PROVE  ptr[u] # b
BY NoneAssumption DEF ObjectsInv, CallOK, TypeOK

\* A call changes its own block and goes on or returns; the directories stay.
LEMMA OwnBlockKeeps ==
    ASSUME ObjectsInv, NEW t \in Threads, pc[t] # "idle", NEW m \in {"free", "raw", "built"},
           NEW next \in {"idle", "freeing"}, NEW p, NEW left \in BOOLEAN,
           mem' = [mem EXCEPT ![ptr[t]] = m],
           pc' = [pc EXCEPT ![t] = next],
           ptr' = [ptr EXCEPT ![t] = p], directory' = directory,
           abandoned' = IF left THEN abandoned \cup {ptr[t]} ELSE abandoned,
           \/ next = "idle" /\ p = None
           \/ next = "freeing" /\ p = ptr[t] /\ ~left /\ ~Entered(ptr[t]) /\ m # "free",
           Entered(ptr[t]) => m # "free" /\ ~left,
           ~Entered(ptr[t]) /\ next = "idle" => (m = "free" <=> ~left)
    PROVE  ObjectsInv'
<1> USE DEF ObjectsInv
<1>1. PICK b \in Blocks : b = ptr[t]
  BY ZenonT(60) DEF CallOK, TypeOK
<1>2. \A c : Entered(c)' <=> Entered(c)
  BY Zenon DEF Entered
<1>3. b \notin abandoned /\ \A u \in Threads \ {t} : ptr[u] # b
  BY Zenon, <1>1, NoneAssumption DEF CallOK
<1>4. TypeOK'
  BY Zenon, <1>1, NoneAssumption DEF TypeOK
<1>5. EntriesApart'
  BY <1>1, <1>2 DEF EntriesApart, TypeOK
<1>6. ASSUME NEW u \in Threads  PROVE CallOK(u)'
  <2>1. CASE u = t
    <3>1. CASE next = "idle"
      <4>1. pc'[u] = "idle" /\ ptr'[u] = None
        BY Zenon, <2>1, <3>1 DEF TypeOK
      <4>2. None \notin abandoned'
        BY Zenon, <1>4, NoneAssumption DEF TypeOK
      <4> QED BY Zenon, <4>1, <4>2 DEF CallOK
    <3>2. CASE next = "freeing"
      BY <1>1, <1>2, <1>3, <2>1, <3>2, NoneAssumption DEF CallOK, TypeOK
    <3> QED BY Zenon, <3>1, <3>2
  <2>2. CASE u # t
    <3>1. pc'[u] = pc[u] /\ ptr'[u] = ptr[u] /\ ptr[u] # b
      BY Zenon, <1>3, <2>2 DEF TypeOK
    <3>2. pc[u] # "idle" => mem'[ptr[u]] = mem[ptr[u]]
      BY ZenonT(60), <1>1, <3>1 DEF TypeOK, CallOK
    <3>3. \A v \in Threads \ {u} : ptr[u] # None => ptr'[u] # ptr'[v]
      BY <1>1, <3>1 DEF TypeOK, CallOK
    <3>4. ptr[u] \notin abandoned'
      BY Zenon, <1>1, <3>1 DEF CallOK
    <3> QED BY <1>2, <3>1, <3>2, <3>3, <3>4 DEF CallOK, TypeOK
  <2> QED BY Zenon, <2>1, <2>2
<1>7. ASSUME NEW c \in Blocks  PROVE BlockOK(c)'
  <2>1. CASE c = b
    <3>1. mem'[c] = m
      BY Zenon, <1>1, <2>1 DEF TypeOK
    <3>2. CASE next = "idle"
      BY Zenon, <1>1, <1>2, <1>3, <2>1, <3>1, <3>2 DEF BlockOK
    <3>3. CASE next = "freeing"
      <4>1. b \in Held'
        BY Zenon, <1>1, <3>3 DEF Held, TypeOK
      <4> QED BY Zenon, <1>1, <1>2, <1>3, <2>1, <3>1, <3>3, <4>1 DEF BlockOK
    <3> QED BY Zenon, <3>2, <3>3
  <2>2. CASE c # b
    <3>1. mem'[c] = mem[c] /\ (c \in abandoned' <=> c \in abandoned)
      BY Zenon, <1>1, <2>2 DEF TypeOK
    <3>2. c \in Held => c \in Held'
      <4>1. \A u \in Threads : ptr[u] = c => pc'[u] = pc[u] /\ ptr'[u] = ptr[u]
        BY Zenon, <1>1, <2>2 DEF TypeOK
      <4> QED BY ZenonT(60), <4>1 DEF Held
    <3> QED BY Zenon, <1>2, <3>1, <3>2 DEF BlockOK
  <2> QED BY Zenon, <2>1, <2>2
<1> QED BY Zenon, <1>4, <1>5, <1>6, <1>7

\* Initially there are no objects.
LEMMA ObjectsInitInv ==
    ASSUME Init  PROVE ObjectsInv
<1>1. TypeOK /\ \A b : ~Entered(b)
  BY Zenon DEF Init, TypeOK, Entered
<1>2. \A t \in Threads : CallOK(t)
  BY Zenon DEF Init, CallOK
<1>3. EntriesApart /\ \A b \in Blocks : BlockOK(b)
  BY Zenon, <1>1 DEF Init, EntriesApart, BlockOK
<1> QED BY Zenon, <1>1, <1>2, <1>3 DEF ObjectsInv

\* Every section of every call keeps the invariant.
LEMMA ObjectsStepInv ==
    ASSUME ObjectsInv, [Next]_vars  PROVE ObjectsInv'
<1>1. CASE UNCHANGED vars
  BY Zenon, <1>1, SameObjects DEF vars
<1>2. ASSUME NEW t \in Threads, NEW kind \in Kinds, NEW name \in Names, NEW type \in Types,
             NEW length \in Lengths, NEW try2find \in BOOLEAN,
             Construct(t, kind, name, type, length, try2find)
      PROVE  ObjectsInv'
  <2>1. CASE Found(t, kind, name, type, try2find) \/ NotConstructed(t, kind, name, type)
    BY Zenon, <2>1, SameObjects DEF Found, NotConstructed
  <2>2. CASE Register(t, kind, name, type, length)
    BY Zenon, <1>2, <2>2, RegisterKeeps DEF Construct
  <2> QED BY Zenon, <1>2, <2>1, <2>2 DEF Construct
<1>3. ASSUME NEW t \in Threads, NEW b \in Blocks, pc[t] = "idle", Entered(b), MayDestroy(b), Take(t, b)
      PROVE  ObjectsInv'
  <2>1. \A u \in Threads \ {t} : ptr[u] # b
    BY Zenon, <1>3, NobodysBlock DEF MayDestroy
  <2> QED BY Zenon, <1>3, <2>1, TakeKeeps DEF Take, MayDestroy
<1>4. ASSUME NEW t \in Threads, NEW kind \in Kinds, NEW name \in Names, NEW type \in Types,
             destroy(t, kind, name, type)
      PROVE  ObjectsInv'
  <2>1. PICK e \in find(kind, name, type) : MayDestroy(e.offset) /\ Take(t, e.offset)
    BY Zenon, <1>4 DEF destroy
  <2>2. e \in directory[kind]
    BY Zenon DEF find
  <2>3. e.offset \in Blocks /\ Entered(e.offset)
    BY Zenon, <2>2, EntryOf DEF ObjectsInv
  <2> QED BY Zenon, <1>3, <1>4, <2>1, <2>3 DEF destroy
<1>5. ASSUME NEW t \in Threads, NEW b \in Blocks, destroy_ptr(t, b)  PROVE ObjectsInv'
  <2>1. get_instance_kind(b) # None
    <3>1. SUFFICES ASSUME get_instance_kind(b) = None  PROVE FALSE
      OBVIOUS
    <3>2. get_instance_length(b) = 0
      BY Zenon, <3>1 DEF get_instance_length
    <3> QED BY <1>5, <3>2 DEF destroy_ptr
  <2>2. Entered(b)
    BY Zenon, <2>1, NoKind 
  <2> QED BY Zenon, <1>3, <1>5, <2>2 DEF destroy_ptr
<1>6. ASSUME NEW t \in Threads, Constructed(t)  PROVE ObjectsInv'
  <2>1. Entered(ptr[t])
    BY Zenon, <1>6 DEF Constructed, ObjectsInv, CallOK
  <2> QED BY Zenon, <1>6, <2>1, OwnBlockKeeps DEF Constructed, Idle
<1>7. ASSUME NEW t \in Threads, ConstructorThrew(t)  PROVE ObjectsInv'
  <2>1. ptr[t] \in Blocks /\ Entered(ptr[t]) /\ \A u \in Threads \ {t} : ptr[u] # ptr[t]
    BY <1>7, NoneAssumption DEF ConstructorThrew, ObjectsInv, CallOK, TypeOK
  <2>2. ptr' = [ptr EXCEPT ![t] = ptr[t]]
    BY Zenon, <1>7 DEF ConstructorThrew, ObjectsInv, TypeOK
  <2> QED BY Zenon, <1>7, <2>1, <2>2, TakeKeeps DEF ConstructorThrew
<1>8. ASSUME NEW t \in Threads, Destructed(t)  PROVE ObjectsInv'
  <2>1. ~Entered(ptr[t])
    BY Zenon, <1>8 DEF Destructed, ObjectsInv, CallOK
  <2>2. ptr' = [ptr EXCEPT ![t] = ptr[t]]
    BY Zenon, <1>8 DEF Destructed, ObjectsInv, TypeOK
  <2> QED BY Zenon, <1>8, <2>1, <2>2, OwnBlockKeeps DEF Destructed
<1>9. ASSUME NEW t \in Threads, DestructorThrew(t)  PROVE ObjectsInv'
  <2>1. ~Entered(ptr[t]) /\ mem[ptr[t]] = "built" /\ ptr[t] \notin abandoned
    BY Zenon, <1>9 DEF DestructorThrew, ObjectsInv, CallOK
  <2>2. mem' = [mem EXCEPT ![ptr[t]] = "built"]
    BY Zenon, <1>9, <2>1 DEF DestructorThrew, ObjectsInv, TypeOK
  <2>3. abandoned' # abandoned
    BY Zenon, <1>9, <2>1 DEF DestructorThrew
  <2> QED BY Zenon, <1>9, <2>1, <2>2, <2>3, OwnBlockKeeps DEF DestructorThrew, Idle
<1>10. ASSUME NEW t \in Threads, Free(t)  PROVE ObjectsInv'
  <2>1. ~Entered(ptr[t])
    BY Zenon, <1>10 DEF Free, ObjectsInv, CallOK
  <2> QED BY Zenon, <1>10, <2>1, OwnBlockKeeps DEF Free, Idle
<1> QED BY Zenon, <1>1, <1>2, <1>4, <1>5, <1>6, <1>7, <1>8, <1>9, <1>10 DEF Next

\* The inductive invariant of the object directories and the memory of their
\* objects holds, whatever threads construct, find and destroy at the same time
\* and whichever constructors and destructors throw.
THEOREM ObjectsInvariant == Spec => []ObjectsInv
<1>1. Init => ObjectsInv
  BY Zenon, ObjectsInitInv
<1>2. ObjectsInv /\ [Next]_vars => ObjectsInv'
  BY Zenon, ObjectsStepInv
<1> QED BY <1>1, <1>2, PTL DEF Spec

\* The three directories agree on every object, and get_instance_kind,
\* get_instance_name, get_instance_length and is_instance_type report what it
\* was registered with.
THEOREM DirectoriesAgree == Spec => []OneEntryPerObject
<1>1. ObjectsInv => OneEntryPerObject
  <2> SUFFICES ASSUME ObjectsInv  PROVE OneEntryPerObject
    BY Zenon 
  <2> USE DEF ObjectsInv
  <2>1. \A e, f \in AllEntries : e.offset = f.offset => e = f
    BY DEF EntriesApart, AllEntries
  <2>2. ASSUME NEW k \in Kinds, NEW e \in directory[k]
        PROVE  /\ get_instance_kind(e.offset) = k
               /\ get_instance_name(e.offset) = e.name
               /\ get_instance_length(e.offset) = e.length
               /\ \A type \in Types : is_instance_type(e.offset, type) = (type = e.type)
    <3>1. get_instance_kind(e.offset) = k /\ k # None
      BY Zenon, KindOf, NoneAssumption
    <3>2. EntryAt(e.offset) = e
      BY Zenon, <3>1 DEF EntryAt, EntriesApart
    <3>3. ASSUME NEW type \in Types  PROVE is_instance_type(e.offset, type) = (type = e.type)
      BY Zenon, <3>1, <3>2 DEF is_instance_type
    <3> QED BY Zenon, <3>1, <3>2, <3>3 DEF get_instance_name, get_instance_length
  <2> QED BY Zenon, <2>1, <2>2 DEF OneEntryPerObject, EntriesApart
<1> QED BY <1>1, ObjectsInvariant, PTL

\* Allocated memory belongs to an entry, to the one call that destroys it or
\* gives it back, or to an object whose destructor threw; nothing is freed
\* twice and nothing is lost when a constructor throws.
THEOREM MemoryHasOneOwner == Spec => []MemoryAccounted
<1>1. ObjectsInv => MemoryAccounted
  <2> SUFFICES ASSUME ObjectsInv  PROVE MemoryAccounted
    OBVIOUS
  <2> USE DEF ObjectsInv
  <2> DEFINE entered == {e.offset : e \in AllEntries}
  <2>1. entered \subseteq Blocks /\ \A b \in Blocks : b \in entered <=> Entered(b)
    BY EntryOf DEF AllEntries, Entered
  <2>2. \A b \in Held : b \in Blocks /\ ~Entered(b) /\ b \notin abandoned /\ mem[b] # "free"
    BY NoneAssumption DEF Held, CallOK, TypeOK
  <2> HIDE DEF entered
  <2>3. {b \in Blocks : mem[b] # "free"} = entered \cup Held \cup abandoned
    BY Zenon, <2>1, <2>2 DEF BlockOK, EntriesApart, TypeOK
  <2>4. entered \cap (Held \cup abandoned) = {} /\ Held \cap abandoned = {}
    BY Zenon, <2>1, <2>2 DEF BlockOK, TypeOK
  <2>5. \A t, u \in Threads : t # u /\ ptr[t] # None => ptr[t] # ptr[u]
    BY Zenon DEF CallOK
  <2>6. \A t \in Threads : pc[t] = "destructing" => mem[ptr[t]] = "built"
    BY Zenon DEF CallOK
  <2> QED BY Zenon, <2>3, <2>4, <2>5, <2>6 DEF MemoryAccounted, entered
<1> QED BY <1>1, ObjectsInvariant, PTL

-----------------------------------------------------------------------------
(* Managers and their kernels.                                             *)

InsideRec == [manager : Managers, kernel : Kernels, onthrow : {"default", "rethrow", "reset"}]

\* What is open belongs to one manager, and a call in a kernel is a call of
\* the manager that owns it.
ManagerInv ==
    /\ m_kernel \in [Managers -> Kernels \cup {None}]
    /\ kernel \in [Kernels -> {"unborn", "good", "bad", "closed"}]
    /\ inside \in [Threads -> InsideRec \cup {None}]
    /\ \A m, n \in Managers : m_kernel[m] = m_kernel[n] /\ m_kernel[m] # None => m = n
    /\ \A k \in Kernels : kernel[k] \in {"good", "bad"} <=> \E m \in Managers : m_kernel[m] = k

\* A call that is in a kernel is in the one its manager owns, which is good.
InsideInv ==
    \A t \in Threads : inside[t] # None =>
        /\ m_kernel[inside[t].manager] = inside[t].kernel
        /\ kernel[inside[t].kernel] = "good"

\* The functions of the manager are described by Op.
LEMMA OpsAreOps ==
    \A op \in Ops : op.checked \in BOOLEAN /\ op.onthrow \in {"default", "rethrow", "reset"}
<1>1. \A s \in {"default", "rethrow", "reset"} : Checked(s) \in Op
  BY Zenon DEF Checked, Op
<1>2. construct \in Op
  BY Zenon DEF construct, Op
<1>3. Ops \subseteq {construct} \cup {Checked(s) : s \in {"default", "rethrow", "reset"}}
  BY Zenon DEF Ops, manager_find, manager_destroy, manager_destroy_ptr,
    manager_get_instance_name, manager_get_instance_length, get_instance_description,
    set_instance_description, get_num_objects, named_begin, anonymous_begin, allocate,
    deallocate, all_memory_deallocated, flush, snapshot, get_uuid, get_version,
    set_description, get_description, get_address, profile
<1>4. Ops \subseteq Op
  BY Zenon, <1>1, <1>2, <1>3
<1> QED BY Zenon, <1>4 DEF Op

\* Nothing is open initially.
LEMMA ManagerInitInv == ManagerInit => ManagerInv /\ InsideInv
BY ZenonT(60), OwnerAssumption DEF ManagerInit, ManagerInv, InsideInv

\* A constructor gives a kernel that nobody owned to a manager that had none.
LEMMA NewManagerInv ==
    ASSUME ManagerInv, NEW m \in Managers, NEW k \in Kernels, NEW o \in {"good", "bad", "threw"},
           NewManager(m, k, o)
    PROVE  ManagerInv' /\ (InsideInv => InsideInv')
<1>1. ManagerInv'
  BY OwnerAssumption DEF ManagerInv, NewManager
<1>2. InsideInv => InsideInv'
  BY OwnerAssumption DEF ManagerInv, InsideInv, InsideRec, NewManager
<1> QED BY Zenon, <1>1, <1>2

\* A move gives the kernel of one manager to another, whose own is deleted.
LEMMA MoveManagerInv ==
    ASSUME ManagerInv, NEW m \in Managers, NEW n \in Managers, MoveManager(m, n)
    PROVE  ManagerInv' /\ (InsideInv => InsideInv')
<1>1. ManagerInv'
  BY OwnerAssumption DEF ManagerInv, MoveManager, Deleted
<1>2. InsideInv => InsideInv'
  BY OwnerAssumption DEF ManagerInv, InsideInv, InsideRec, MoveManager, Deleted, Alone
<1> QED BY Zenon, <1>1, <1>2

\* A call enters the kernel of a sane manager only.
LEMMA EnterInv ==
    ASSUME ManagerInv, NEW t \in Threads, NEW m \in Managers, NEW op \in Ops, Enter(t, m, op)
    PROVE  ManagerInv' /\ (InsideInv => InsideInv')
<1>1. ManagerInv'
  BY OpsAreOps, OwnerAssumption DEF ManagerInv, InsideRec, Enter, check_sanity
<1>2. InsideInv => InsideInv'
  BY OwnerAssumption DEF ManagerInv, InsideInv, InsideRec, Enter, check_sanity
<1> QED BY Zenon, <1>1, <1>2

\* A call returns.
LEMMA ReturnInv ==
    ASSUME ManagerInv, NEW t \in Threads, Return(t)
    PROVE  ManagerInv' /\ (InsideInv => InsideInv')
BY ZenonT(60) DEF ManagerInv, InsideInv, Return

\* A call that throws may take the kernel with it; that hurts no other call
\* when none is in the same manager.
LEMMA ThrowInv ==
    ASSUME ManagerInv, NEW t \in Threads, Throw(t)
    PROVE  ManagerInv' /\ (~ThrowsAmongOthers /\ InsideInv => InsideInv')
<1>1. ManagerInv'
  BY OwnerAssumption DEF ManagerInv, InsideRec, Throw, Deleted
<1>2. ~ThrowsAmongOthers /\ InsideInv => InsideInv'
  BY OwnerAssumption DEF ManagerInv, InsideInv, InsideRec, Throw, Deleted
<1> QED BY Zenon, <1>1, <1>2

\* The allocators leave managers and kernels alone.
LEMMA AllocatorsLeave ==
    ASSUME ManagerInv, UNCHANGED <<m_kernel, kernel, inside>>
    PROVE  ManagerInv' /\ (InsideInv => InsideInv')
BY Zenon DEF ManagerInv, InsideInv

\* Every step of a program with managers keeps both.
LEMMA ManagerStep ==
    ASSUME ManagerInv, [ManagerNext]_managerVars
    PROVE  ManagerInv' /\ (~ThrowsAmongOthers /\ InsideInv => InsideInv')
<1>1. CASE \E m \in Managers, k \in Kernels, o \in {"good", "bad", "threw"} : NewManager(m, k, o)
  BY Zenon, <1>1, NewManagerInv
<1>2. CASE \E m, n \in Managers : MoveManager(m, n)
  BY Zenon, <1>2, MoveManagerInv
<1>3. CASE \E m \in Managers, t \in Threads, op \in Ops : Enter(t, m, op)
  BY Zenon, <1>3, EnterInv
<1>4. CASE \E t \in Threads : Return(t)
  BY Zenon, <1>4, ReturnInv
<1>5. CASE \E t \in Threads : Throw(t)
  BY Zenon, <1>5, ThrowInv
<1>6. CASE UNCHANGED <<m_kernel, kernel, inside>>
  BY Zenon, <1>6, AllocatorsLeave
<1>7. ManagerNext =>
        \/ \E m \in Managers, k \in Kernels, o \in {"good", "bad", "threw"} : NewManager(m, k, o)
        \/ \E m, n \in Managers : MoveManager(m, n)
        \/ \E m \in Managers, t \in Threads, op \in Ops : Enter(t, m, op)
        \/ \E t \in Threads : Return(t)
        \/ \E t \in Threads : Throw(t)
        \/ UNCHANGED <<m_kernel, kernel, inside>>
  BY Zenon DEF ManagerNext, get_allocator, DefaultAllocator, CopyAllocator, HandOver,
    DeallocateBlock, AllocateBlock
<1>8. UNCHANGED managerVars => UNCHANGED <<m_kernel, kernel, inside>>
  BY Zenon DEF managerVars
<1> QED BY Zenon, <1>1, <1>2, <1>3, <1>4, <1>5, <1>6, <1>7, <1>8

\* The managers that own a kernel are one or none.
LEMMA OneOwner == ManagerInv => OneManagerPerKernel
BY OwnerAssumption DEF ManagerInv, OneManagerPerKernel

\* A call that is in a kernel is in a good one.
LEMMA AliveInside == InsideInv => KernelAliveInside
BY Zenon DEF InsideInv, KernelAliveInside

\* basic_manager: a kernel that was opened and not closed has exactly one
\* manager, whatever is moved, fails or throws, for any number of managers and
\* threads and with exceptions in the middle of other calls.
THEOREM OneManagerPerKernelAlways == ManagerSpec => []OneManagerPerKernel
<1>1. ManagerInit => ManagerInv
  BY Zenon, ManagerInitInv
<1>2. ManagerInv /\ [ManagerNext]_managerVars => ManagerInv'
  BY Zenon, ManagerStep
<1> QED BY <1>1, <1>2, OneOwner, PTL DEF ManagerSpec

\* Both halves, when no function throws while another call is in the same
\* manager: no thread is then in a kernel that was deleted.
THEOREM KernelsKeptAlways ==
    ASSUME ~ThrowsAmongOthers
    PROVE  ManagerSpec => []KernelsKept
<1>1. ManagerInit => ManagerInv /\ InsideInv
  BY Zenon, ManagerInitInv
<1>2. (ManagerInv /\ InsideInv) /\ [ManagerNext]_managerVars => (ManagerInv /\ InsideInv)'
  BY Zenon, ManagerStep
<1>3. ManagerInv /\ InsideInv => KernelsKept
  BY Zenon, OneOwner, AliveInside DEF KernelsKept
<1> QED BY <1>1, <1>2, <1>3, PTL DEF ManagerSpec

-----------------------------------------------------------------------------
(* Allocators.                                                             *)

\* A block that is held came from where its holder's allocator leads.
BlocksInv ==
    /\ m_alloc \in [Allocators -> Kernels \cup {None}]
    /\ DOMAIN source = Memory
    /\ holder \in [Memory -> Allocators \cup {None}]
    /\ FreedWhereAllocated

\* Every step of a program with allocators keeps that: an allocator changes
\* only while nothing is held through it, and memory changes hands only
\* between equal ones.
LEMMA BlocksStep ==
    ASSUME BlocksInv, ManagerInv, [ManagerNext]_managerVars
    PROVE  BlocksInv'
<1> USE DEF BlocksInv, FreedWhereAllocated, Source, priv_stateful_allocator_available
<1>1. ASSUME NEW a \in Allocators, NEW m \in Managers, get_allocator(a, m) PROVE BlocksInv'
  BY <1>1 DEF get_allocator, ManagerInv, check_sanity
<1>2. ASSUME NEW c \in Allocators, DefaultAllocator(c) PROVE BlocksInv'
  BY Zenon, <1>2 DEF DefaultAllocator
<1>3. ASSUME NEW a \in Allocators, NEW c \in Allocators, CopyAllocator(a, c) PROVE BlocksInv'
  BY Zenon, <1>3 DEF CopyAllocator
<1>4. ASSUME NEW a \in Allocators, NEW c \in Allocators, NEW b \in Memory, HandOver(a, c, b)
      PROVE  BlocksInv'
  <2>1. /\ holder[b] = a /\ m_alloc[a] = m_alloc[c]
        /\ holder' = [holder EXCEPT ![b] = c]
        /\ m_alloc' = m_alloc /\ source' = source
    BY Zenon, <1>4 DEF HandOver, Equal
  <2>2. /\ m_alloc' \in [Allocators -> Kernels \cup {None}]
        /\ DOMAIN source' = Memory
        /\ holder' \in [Memory -> Allocators \cup {None}]
    BY Zenon, <2>1
  <2>3. ASSUME NEW x \in Memory, holder'[x] # None
        PROVE  source'[x] = IF m_alloc'[holder'[x]] # None THEN m_alloc'[holder'[x]] ELSE "heap"
    <3>1. CASE x = b
      BY Zenon, <2>1, <2>3, <3>1, OwnerAssumption
    <3>2. CASE x # b
      BY Zenon, <2>1, <2>3, <3>2
    <3> QED BY Zenon, <3>1, <3>2
  <2> QED BY Zenon, <2>2, <2>3
<1>5. ASSUME NEW b \in Memory, DeallocateBlock(b) PROVE BlocksInv'
  BY Zenon, <1>5 DEF DeallocateBlock
<1>6. ASSUME NEW a \in Allocators, NEW b \in Memory, AllocateBlock(a, b) PROVE BlocksInv'
  BY Zenon, <1>6 DEF AllocateBlock
<1>7. ASSUME UNCHANGED <<m_alloc, source, holder>> PROVE BlocksInv'
  BY Zenon, <1>7
<1>8. ManagerNext =>
        \/ \E a \in Allocators, m \in Managers : get_allocator(a, m)
        \/ \E c \in Allocators : DefaultAllocator(c)
        \/ \E a, c \in Allocators : CopyAllocator(a, c)
        \/ \E a, c \in Allocators, b \in Memory : HandOver(a, c, b)
        \/ \E b \in Memory : DeallocateBlock(b)
        \/ \E a \in Allocators, b \in Memory : AllocateBlock(a, b)
        \/ UNCHANGED <<m_alloc, source, holder>>
  BY Zenon DEF ManagerNext, NewManager, MoveManager, Enter, Return, Throw
<1>9. UNCHANGED managerVars => UNCHANGED <<m_alloc, source, holder>>
  BY Zenon DEF managerVars
<1> HIDE DEF BlocksInv
<1> QED BY Zenon, <1>1, <1>2, <1>3, <1>4, <1>5, <1>6, <1>7, <1>8, <1>9

\* stl_allocator and fallback_allocator_adaptor: a block goes back to the
\* kernel or heap it came from, however managers and allocators are moved,
\* copied and defaulted, and whatever throws.
THEOREM FreedWhereAllocatedAlways == ManagerSpec => []FreedWhereAllocated
<1>1. ManagerInit => ManagerInv /\ BlocksInv
  <2>1. ManagerInit => ManagerInv
    BY ManagerInitInv
  <2>2. ManagerInit => BlocksInv
    BY Zenon DEF ManagerInit, BlocksInv, FreedWhereAllocated
  <2> QED BY Zenon, <2>1, <2>2
<1>2. (ManagerInv /\ BlocksInv) /\ [ManagerNext]_managerVars => (ManagerInv /\ BlocksInv)'
  BY Zenon, ManagerStep, BlocksStep
<1>3. BlocksInv => FreedWhereAllocated
  BY Zenon DEF BlocksInv
<1> QED BY <1>1, <1>2, <1>3, PTL DEF ManagerSpec

-----------------------------------------------------------------------------
(* The C interface.                                                        *)

HandleRec == [path : Paths, readonly : BOOLEAN]
CallRec == [do : {"open", "create"}, path : Paths, readonly : BOOLEAN]

\* Of a caller that is alone: until a store is pulled from under a handle, the
\* store of every handle exists, and a path that was looked at for create is
\* still free.
CInv ==
    /\ store \in [Paths -> {"absent", "marked", "unmarked"}]
    /\ manager \in [Handles -> HandleRec \cup {None}]
    /\ call \in [Callers -> CallRec \cup {None}]
    /\ pulled \in BOOLEAN
    /\ ~pulled => \A h \in Handles : manager[h] # None => store[manager[h].path] # "absent"
    /\ \A c \in Callers : call[c] # None /\ call[c].do = "create" => store[call[c].path] = "absent"
    /\ WriterAlone

\* Nothing is open initially.
LEMMA CInitInv == CInit => CInv
<1> SUFFICES ASSUME CInit PROVE CInv
  OBVIOUS
<1>1. /\ \A h \in Handles : manager[h] = None
      /\ \A c \in Callers : call[c] = None
  BY Zenon DEF CInit
<1>2. /\ store \in [Paths -> {"absent", "marked", "unmarked"}]
      /\ manager \in [Handles -> HandleRec \cup {None}]
      /\ call \in [Callers -> CallRec \cup {None}]
      /\ pulled \in BOOLEAN
  BY Zenon DEF CInit
<1>3. WriterAlone
  BY Zenon, <1>1 DEF WriterAlone
<1> QED BY Zenon, <1>1, <1>2, <1>3 DEF CInv

\* A step that opens nothing and changes no store.
LEMMA CallOnly ==
    ASSUME CInv, NEW c \in Callers, NEW step \in CallRec \cup {None},
           step # None /\ step.do = "create" => store[step.path] = "absent",
           call' = [call EXCEPT ![c] = step], UNCHANGED <<store, manager, pulled>>
    PROVE  CInv'
<1>1. call' \in [Callers -> CallRec \cup {None}]
  BY Zenon DEF CInv
<1>2. \A d \in Callers : call'[d] = IF d = c THEN step ELSE call[d]
  BY Zenon DEF CInv
<1>3. \A d \in Callers :
        call'[d] # None /\ call'[d].do = "create" => store[call'[d].path] = "absent"
  BY Zenon, <1>2 DEF CInv
<1>4. WriterAlone'
  BY ZenonT(60) DEF CInv, WriterAlone
<1> QED BY Zenon, <1>1, <1>3, <1>4 DEF CInv

\* The lookups before an open and a create.
LEMMA ChecksInv ==
    ASSUME CInv, NEW c \in Callers, NEW p \in Paths, NEW readonly \in BOOLEAN,
           OpenCheck(c, p, readonly) \/ CreateCheck(c, p)
    PROVE  CInv'
<1>1. CASE OpenCheck(c, p, readonly)
  <2>1. PICK step \in CallRec : step = [do |-> "open", path |-> p, readonly |-> readonly]
    BY Zenon DEF CallRec
  <2>2. step.do # "create"
    BY Zenon, <2>1
  <2>3. \/ call' = [call EXCEPT ![c] = step]
        \/ call' = [call EXCEPT ![c] = None]
    BY Zenon, <1>1, <2>1 DEF OpenCheck, Goes, Done
  <2>4. UNCHANGED <<store, manager, pulled>>
    BY Zenon, <1>1 DEF OpenCheck
  <2> QED BY Zenon, <2>2, <2>3, <2>4, CallOnly
<1>2. CASE CreateCheck(c, p)
  <2>1. PICK step \in CallRec : step = [do |-> "create", path |-> p, readonly |-> FALSE]
    BY Zenon DEF CallRec
  <2>2. step.path = p
    BY Zenon, <2>1
  <2>3. \/ call' = [call EXCEPT ![c] = step] /\ store[p] = "absent"
        \/ call' = [call EXCEPT ![c] = None]
    BY Zenon, <1>2, <2>1 DEF CreateCheck, Goes, Done
  <2>4. UNCHANGED <<store, manager, pulled>>
    BY Zenon, <1>2 DEF CreateCheck
  <2> QED BY Zenon, <2>2, <2>3, <2>4, CallOnly
<1> QED BY Zenon, <1>1, <1>2

\* A free handle is a handle.
LEMMA FreeHandleIsFree == HandleLeft => FreeHandle \in Handles /\ manager[FreeHandle] = None
BY Zenon DEF HandleLeft, FreeHandle

\* A store that nobody writes gets a handle, its writer if it is not opened
\* read-only.
LEMMA HandleAdded ==
    ASSUME CInv, \A d, e \in Callers : d = e, NEW c \in Callers, NEW p \in Paths,
           NEW h \in Handles, manager[h] = None,
           NEW readonly \in BOOLEAN, NEW to \in {"marked", "unmarked"},
           ~readonly => to = "unmarked",
           ~pulled => \A g \in Handles : manager[g] # None /\ manager[g].path = p => manager[g].readonly,
           manager' = [manager EXCEPT ![h] = [path |-> p, readonly |-> readonly]],
           store' = [store EXCEPT ![p] = to], call' = [call EXCEPT ![c] = None], UNCHANGED pulled
    PROVE  CInv'
<1>1. PICK r \in HandleRec : r = [path |-> p, readonly |-> readonly]
  BY Zenon DEF HandleRec
<1>2. r.path = p /\ r.readonly = readonly
  BY Zenon, <1>1
<1>3. manager' = [manager EXCEPT ![h] = r]
  BY Zenon, <1>1
<1>4. /\ store' \in [Paths -> {"absent", "marked", "unmarked"}]
      /\ manager' \in [Handles -> HandleRec \cup {None}]
      /\ call' \in [Callers -> CallRec \cup {None}]
      /\ pulled' \in BOOLEAN
  BY <1>3 DEF CInv
<1>5. \A g \in Handles : manager'[g] = IF g = h THEN r ELSE manager[g]
  BY ZenonT(60), <1>3 DEF CInv
<1>6. \A q \in Paths : store'[q] = IF q = p THEN to ELSE store[q]
  BY Zenon DEF CInv
<1>7. \A g \in Handles : manager[g] # None => manager[g].path \in Paths /\ manager[g].readonly \in BOOLEAN
  BY ZenonT(60) DEF CInv, HandleRec
<1>8. ~pulled' => \A g \in Handles : manager'[g] # None => store'[manager'[g].path] # "absent"
  BY ZenonT(60), <1>2, <1>5, <1>6, <1>7 DEF CInv
<1>9. \A d \in Callers : call'[d] = None
  BY Zenon DEF CInv
<1>10. WriterAlone'
  BY <1>2, <1>5, <1>6, <1>7 DEF CInv, WriterAlone
<1> QED BY Zenon, <1>4, <1>8, <1>9, <1>10 DEF CInv

\* The constructor of open: the mark is there, so nobody writes.
LEMMA OpenManagerInv ==
    ASSUME CInv, \A d, e \in Callers : d = e, NEW c \in Callers, OpenManager(c)
    PROVE  CInv'
<1> DEFINE p == call[c].path
           readonly == call[c].readonly
<1>1. call[c] # None /\ p \in Paths /\ readonly \in BOOLEAN
  BY Zenon DEF CInv, CallRec, OpenManager
<1>2. call' = [call EXCEPT ![c] = None] /\ pulled' = pulled
  BY Zenon DEF OpenManager, Done
<1>3. CASE UNCHANGED <<store, manager>>
  BY Zenon, <1>2, <1>3, CallOnly
<1>4. CASE consistent(p) /\ store' = [store EXCEPT ![p] = IF readonly THEN @ ELSE "unmarked"]
  <2>1. PICK to \in {"marked", "unmarked"} :
            /\ ~readonly => to = "unmarked"
            /\ store' = [store EXCEPT ![p] = to]
    BY Zenon, <1>1, <1>4 DEF consistent, CInv
  <2>2. ~pulled => \A g \in Handles : manager[g] # None /\ manager[g].path = p => manager[g].readonly
    BY Zenon, <1>4 DEF consistent, CInv, WriterAlone, HandleRec
  <2>3. CASE HandleLeft /\ manager' = [manager EXCEPT ![FreeHandle] = [path |-> p, readonly |-> readonly]]
    <3>1. PICK h \in Handles : manager[h] = None /\ h = FreeHandle
      BY Zenon, <2>3, FreeHandleIsFree
    <3> QED BY Zenon, <1>1, <1>2, <2>1, <2>2, <2>3, <3>1, HandleAdded
  <2>4. CASE manager' = manager
    <3>1. \A q \in Paths : store'[q] = IF q = p THEN to ELSE store[q]
      BY Zenon, <2>1 DEF CInv
    <3>2. \A g \in Handles : manager[g] # None => manager[g].path \in Paths /\ manager[g].readonly \in BOOLEAN
      BY Zenon DEF CInv, HandleRec
    <3>3. /\ store' \in [Paths -> {"absent", "marked", "unmarked"}]
          /\ call' \in [Callers -> CallRec \cup {None}]
          /\ \A d \in Callers : call'[d] = None
      BY Zenon, <1>2, <2>1 DEF CInv
    <3>4. WriterAlone'
      BY <1>2, <2>2, <2>4, <3>1, <3>2 DEF CInv, WriterAlone
    <3>5. ~pulled' => \A g \in Handles : manager'[g] # None => store'[manager'[g].path] # "absent"
      BY Zenon, <1>2, <2>4, <3>1, <3>2 DEF CInv
    <3> QED BY Zenon, <1>2, <2>4, <3>3, <3>4, <3>5 DEF CInv
  <2> QED BY Zenon, <1>4, <2>3, <2>4 DEF OpenManager
<1> QED BY Zenon, <1>3, <1>4 DEF OpenManager

\* The constructor of create: nothing was at the path, so no handle leads
\* there.
LEMMA CreateManagerInv ==
    ASSUME CInv, \A d, e \in Callers : d = e, NEW c \in Callers, CreateManager(c)
    PROVE  CInv'
<1> DEFINE p == call[c].path
<1>1. call[c] # None /\ p \in Paths /\ store[p] = "absent"
  BY Zenon DEF CInv, CallRec, CreateManager
<1>2. call' = [call EXCEPT ![c] = None] /\ pulled' = pulled
  BY Zenon DEF CreateManager, Done
<1>3. ~pulled => \A g \in Handles : manager[g] # None => manager[g].path # p
  BY Zenon, <1>1 DEF CInv
<1>4. store' = [store EXCEPT ![p] = "unmarked"]
  BY Zenon DEF CreateManager
<1>5. CASE HandleLeft /\ manager' = [manager EXCEPT ![FreeHandle] = [path |-> p, readonly |-> FALSE]]
  <2>1. PICK h \in Handles : manager[h] = None /\ h = FreeHandle
    BY Zenon, <1>5, FreeHandleIsFree
  <2> QED BY Zenon, <1>1, <1>2, <1>3, <1>4, <1>5, <2>1, HandleAdded
<1>6. CASE manager' = manager
  <2>1. \A q \in Paths : store'[q] = IF q = p THEN "unmarked" ELSE store[q]
    BY Zenon, <1>4 DEF CInv
  <2>2. \A g \in Handles : manager[g] # None => manager[g].path \in Paths /\ manager[g].readonly \in BOOLEAN
    BY Zenon DEF CInv, HandleRec
  <2>3. /\ store' \in [Paths -> {"absent", "marked", "unmarked"}]
        /\ call' \in [Callers -> CallRec \cup {None}]
        /\ \A d \in Callers : call'[d] = None
    BY Zenon, <1>2, <1>4 DEF CInv
  <2>4. WriterAlone'
    BY ZenonT(60), <1>2, <1>3, <1>6, <2>1, <2>2 DEF CInv, WriterAlone
  <2>5. ~pulled' => \A g \in Handles : manager'[g] # None => store'[manager'[g].path] # "absent"
    BY Zenon, <1>2, <1>6, <2>1, <2>2 DEF CInv
  <2> QED BY Zenon, <1>2, <1>6, <2>3, <2>4, <2>5 DEF CInv
<1> QED BY Zenon, <1>5, <1>6 DEF CreateManager

\* metall_close: a writer leaves its mark when it is gone.
LEMMA CloseInv ==
    ASSUME CInv, \A d, e \in Callers : d = e, NEW c \in Callers, NEW h \in Handles,
           metall_close(c, h)
    PROVE  CInv'
<1>1. PICK r \in HandleRec : r = manager[h]
  BY Zenon DEF CInv, metall_close
<1>2. r.path \in Paths /\ r.readonly \in BOOLEAN
  BY Zenon DEF HandleRec
<1>3. PICK to \in {"absent", "marked", "unmarked"} :
        to = IF r.readonly \/ store[r.path] = "absent" THEN store[r.path] ELSE "marked"
  BY Zenon, <1>2 DEF CInv
<1>4. /\ store' = [store EXCEPT ![r.path] = to]
      /\ manager' = [manager EXCEPT ![h] = None]
      /\ call' = [call EXCEPT ![c] = None] /\ pulled' = pulled
  BY Zenon, <1>1, <1>3 DEF metall_close, Done
<1>5. /\ \A q \in Paths : store'[q] = IF q = r.path THEN to ELSE store[q]
      /\ \A g \in Handles : manager'[g] = IF g = h THEN None ELSE manager[g]
  BY Zenon, <1>4 DEF CInv
<1>6. /\ store' \in [Paths -> {"absent", "marked", "unmarked"}]
      /\ manager' \in [Handles -> HandleRec \cup {None}]
      /\ call' \in [Callers -> CallRec \cup {None}]
      /\ \A d \in Callers : call'[d] = None
  BY Zenon, <1>2, <1>4 DEF CInv
<1>7. \A g \in Handles : manager[g] # None => manager[g].path \in Paths /\ manager[g].readonly \in BOOLEAN
  BY ZenonT(60) DEF CInv, HandleRec
<1>8. manager[h] # None
  BY Zenon DEF metall_close
<1>9. WriterAlone'
  BY <1>1, <1>3, <1>4, <1>5, <1>7, <1>8 DEF CInv, WriterAlone
<1>10. ~pulled' => \A g \in Handles : manager'[g] # None => store'[manager'[g].path] # "absent"
  BY ZenonT(60), <1>3, <1>4, <1>5, <1>7 DEF CInv
<1> QED BY Zenon, <1>4, <1>6, <1>9, <1>10 DEF CInv

\* metall_remove: of a store that is not open, or a store is pulled.
LEMMA RemoveInv ==
    ASSUME CInv, \A d, e \in Callers : d = e, NEW c \in Callers, NEW p \in Paths,
           metall_remove(c, p)
    PROVE  CInv'
<1>1. /\ store' = [store EXCEPT ![p] = "absent"] /\ manager' = manager
      /\ call' = [call EXCEPT ![c] = None] /\ pulled' = (pulled \/ Opened(p))
  BY Zenon DEF metall_remove, Done
<1>2. /\ store' \in [Paths -> {"absent", "marked", "unmarked"}]
      /\ manager' \in [Handles -> HandleRec \cup {None}]
      /\ call' \in [Callers -> CallRec \cup {None}]
      /\ \A d \in Callers : call'[d] = None
      /\ \A q \in Paths : store'[q] = IF q = p THEN "absent" ELSE store[q]
  BY Zenon, <1>1 DEF CInv
<1>3. pulled' \in BOOLEAN
  BY Zenon, <1>1 DEF CInv, Opened
<1>4. ~pulled' => ~pulled /\ \A g \in Handles : manager[g] # None => manager[g].path # p
  BY Zenon, <1>1 DEF Opened
<1>5. \A g \in Handles : manager[g] # None => manager[g].path \in Paths /\ manager[g].readonly \in BOOLEAN
  BY Zenon DEF CInv, HandleRec
<1>6. WriterAlone'
  BY <1>1, <1>2, <1>4, <1>5 DEF CInv, WriterAlone
<1>7. ~pulled' => \A g \in Handles : manager'[g] # None => store'[manager'[g].path] # "absent"
  BY Zenon, <1>1, <1>2, <1>4, <1>5 DEF CInv
<1> QED BY Zenon, <1>2, <1>3, <1>6, <1>7 DEF CInv

\* Every step of one caller keeps the invariant.
LEMMA CStep ==
    ASSUME \A d, e \in Callers : d = e, CInv, [CNext]_cVars
    PROVE  CInv'
<1>1. CASE UNCHANGED cVars
  BY ZenonT(60), <1>1 DEF cVars, CInv, WriterAlone
<1>2. CASE CNext
  <2>1. PICK c \in Callers :
        \/ \E p \in Paths, readonly \in BOOLEAN : OpenCheck(c, p, readonly) \/ CreateCheck(c, p)
        \/ \E p \in Paths : metall_remove(c, p)
        \/ OpenManager(c) \/ CreateManager(c)
        \/ \E h \in Handles : metall_close(c, h)
        \/ call' = [call EXCEPT ![c] = None] /\ UNCHANGED <<store, manager, pulled>>
    BY <1>2, ZenonT(60) DEF CNext, Done, metall_find, metall_named_free, metall_named_malloc
  <2> QED BY Zenon, <2>1, ChecksInv, RemoveInv, OpenManagerInv, CreateManagerInv, CloseInv, CallOnly
<1> QED BY Zenon, <1>1, <1>2

\* metall_open, metall_create, metall_close: a program with one thread in the
\* interface, however many stores and handles it has, never has two writers of
\* one store and never a mark on a store it is writing, until it removes an
\* open store.
THEOREM WriterAloneAlways ==
    ASSUME \A c, d \in Callers : c = d
    PROVE  CSpec => []WriterAlone
<1>1. CInit => CInv
  BY Zenon, CInitInv
<1>2. CInv /\ [CNext]_cVars => CInv'
  BY Zenon, CStep
<1>3. CInv => WriterAlone
  BY Zenon DEF CInv
<1> QED BY <1>1, <1>2, <1>3, PTL DEF CSpec
=============================================================================
