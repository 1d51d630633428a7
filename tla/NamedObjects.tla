----------------------------- MODULE NamedObjects -----------------------------
(***************************************************************************)
(* Construction and destruction of attributed objects by the threads of a  *)
(* program (manager_kernel: generic_construct, find, destroy, destroy_ptr, *)
(* get_instance_kind ...): the three object directories, the memory of the *)
(* objects, and constructors and destructors that run, and may throw,      *)
(* outside the mutex of the directories.                                   *)
(*                                                                         *)
(* A section under the mutex is one step: everything that changes a        *)
(* directory holds it.  Memory is a set of blocks; the allocator under it  *)
(* is SegmentAllocator.                                                    *)
(***************************************************************************)
EXTENDS Program, Integers, FiniteSets

CONSTANTS
    Types,        \* of objects; the name of a unique object is its type
    Blocks,       \* memory, by offset
    Lengths       \* numbers of array elements asked for

Kinds == {"named", "unique", "anonymous"}

ASSUME NoneAssumption == None \notin Kinds \cup Blocks
ASSUME LengthAssumption == Lengths \subseteq Nat

VARIABLES
    directory,    \* of each kind: a set of entries
    mem,          \* of each block: "free", "raw" (allocated) or "built"
    pc,           \* of each thread
    ptr,          \* the block each thread works on
    returned,     \* what the last call of each thread returned
    abandoned     \* blocks whose destructor threw

vars == <<directory, mem, pc, ptr, returned, abandoned>>

Entry == [name : Names \cup Types \cup {None}, type : Types, offset : Blocks, length : Nat]

Init ==
    /\ directory = [k \in Kinds |-> {}]
    /\ mem = [b \in Blocks |-> "free"]
    /\ pc = [t \in Threads |-> "idle"]
    /\ ptr = [t \in Threads |-> None]
    /\ returned = [t \in Threads |-> [ptr |-> None, built |-> TRUE]]
    /\ abandoned = {}

AllEntries == UNION {directory[k] : k \in Kinds}

-----------------------------------------------------------------------------
(* Lookups.                                                                *)

\* The name an object of this kind is registered under.
KeyOf(kind, name, type) ==
    CASE kind = "named" -> name [] kind = "unique" -> type [] OTHER -> None

\* find: anonymous objects are never found; the type of a named object is
\* not compared.
find(kind, name, type) ==
    IF kind = "anonymous" THEN {}
    ELSE {e \in directory[kind] : e.name = KeyOf(kind, name, type)}

\* get_instance_kind, get_instance_length: the directories are searched for
\* the offset one after the other.
get_instance_kind(b) ==
    LET has(k) == \E e \in directory[k] : e.offset = b IN
    CASE has("named") -> "named"
      [] has("unique") -> "unique"
      [] has("anonymous") -> "anonymous"
      [] OTHER -> None

EntryAt(b) == CHOOSE e \in directory[get_instance_kind(b)] : e.offset = b

get_instance_name(b) == IF get_instance_kind(b) = None THEN None ELSE EntryAt(b).name

get_instance_length(b) == IF get_instance_kind(b) = None THEN 0 ELSE EntryAt(b).length

is_instance_type(b, type) == get_instance_kind(b) # None /\ EntryAt(b).type = type

-----------------------------------------------------------------------------
(* Steps.                                                                  *)

Idle(t) == pc' = [pc EXCEPT ![t] = "idle"] /\ ptr' = [ptr EXCEPT ![t] = None]

Returns(t, b, built) ==
    returned' = [returned EXCEPT ![t] = [ptr |-> b, built |-> built]]

\* priv_remove_attr_object_no_mutex: the first directory that has the offset.
priv_remove_attr_object(b) ==
    LET k == get_instance_kind(b) IN
    IF k = None THEN directory
    ELSE [directory EXCEPT ![k] = {e \in @ : e.offset # b}]

\* The program waits until an object is constructed before it destroys it: the
\* code does not look.
MayDestroy(b) == mem[b] = "built"

\* priv_generic_construct, up to the release of the mutex.  The name is in
\* use, or memory is exhausted or registration fails (whose memory is given
\* back), or the entry is registered.
Found(t, kind, name, type, try2find) ==
    \E e \in find(kind, name, type) :
        /\ IF try2find THEN Returns(t, e.offset, mem[e.offset] = "built")
           ELSE Returns(t, None, TRUE)
        /\ UNCHANGED <<directory, mem, pc, ptr, abandoned>>

\* Mutant: without the search for the name.
RegisterUnchecked(t, kind, name, type, length) ==
    \E b \in {c \in Blocks : mem[c] = "free"} :
        /\ mem' = [mem EXCEPT ![b] = "raw"]
        /\ directory' = [directory EXCEPT ![kind] = @ \cup
               {[name |-> KeyOf(kind, name, type), type |-> type, offset |-> b, length |-> length]}]
        /\ pc' = [pc EXCEPT ![t] = "constructing"]
        /\ ptr' = [ptr EXCEPT ![t] = b]
        /\ UNCHANGED <<returned, abandoned>>

Register(t, kind, name, type, length) ==
    /\ find(kind, name, type) = {}
    /\ \E b \in {c \in Blocks : mem[c] = "free"} :
        /\ mem' = [mem EXCEPT ![b] = "raw"]
        /\ directory' = [directory EXCEPT ![kind] = @ \cup
               {[name |-> KeyOf(kind, name, type), type |-> type, offset |-> b, length |-> length]}]
        /\ pc' = [pc EXCEPT ![t] = "constructing"]
        /\ ptr' = [ptr EXCEPT ![t] = b]
        /\ UNCHANGED <<returned, abandoned>>

NotConstructed(t, kind, name, type) ==
    /\ find(kind, name, type) = {}
    /\ Returns(t, None, TRUE)
    /\ UNCHANGED <<directory, mem, pc, ptr, abandoned>>

Construct(t, kind, name, type, length, try2find) ==
    /\ pc[t] = "idle"
    /\ \/ Found(t, kind, name, type, try2find)
       \/ Register(t, kind, name, type, length)
       \/ NotConstructed(t, kind, name, type)

\* construct_n, after which the holder of the memory is released.
Constructed(t) ==
    /\ pc[t] = "constructing"
    /\ mem' = [mem EXCEPT ![ptr[t]] = "built"]
    /\ Returns(t, ptr[t], TRUE)
    /\ Idle(t)
    /\ UNCHANGED <<directory, abandoned>>

\* Mutant: the memory is freed and the entry stays.
ThrewKeepsEntry(t) ==
    /\ pc[t] = "constructing"
    /\ pc' = [pc EXCEPT ![t] = "freeing"]
    /\ UNCHANGED <<directory, mem, ptr, returned, abandoned>>

\* A constructor throws: the holder removes the entry, then frees the memory.
ConstructorThrew(t) ==
    /\ pc[t] = "constructing"
    /\ directory' = priv_remove_attr_object(ptr[t])
    /\ pc' = [pc EXCEPT ![t] = "freeing"]
    /\ UNCHANGED <<mem, ptr, returned, abandoned>>

Free(t) ==
    /\ pc[t] = "freeing"
    /\ mem' = [mem EXCEPT ![ptr[t]] = "free"]
    /\ Idle(t)
    /\ UNCHANGED <<directory, returned, abandoned>>

\* The section of destroy and destroy_ptr under the mutex.
Take(t, b) ==
    /\ directory' = priv_remove_attr_object(b)
    /\ pc' = [pc EXCEPT ![t] = "destructing"]
    /\ ptr' = [ptr EXCEPT ![t] = b]
    /\ UNCHANGED <<mem, returned, abandoned>>

destroy(t, kind, name, type) ==
    /\ pc[t] = "idle"
    /\ \E e \in find(kind, name, type) : MayDestroy(e.offset) /\ Take(t, e.offset)

\* The pointer of a registered object, which has elements.
destroy_ptr(t, b) ==
    /\ pc[t] = "idle"
    /\ get_instance_length(b) > 0
    /\ MayDestroy(b) /\ Take(t, b)

\* priv_destruct_and_free_memory; a destructor that throws leaves the memory.
Destructed(t) ==
    /\ pc[t] = "destructing"
    /\ mem' = [mem EXCEPT ![ptr[t]] = "raw"]
    /\ pc' = [pc EXCEPT ![t] = "freeing"]
    /\ UNCHANGED <<directory, ptr, returned, abandoned>>

DestructorThrew(t) ==
    /\ pc[t] = "destructing"
    /\ abandoned' = abandoned \cup {ptr[t]}
    /\ Idle(t)
    /\ UNCHANGED <<directory, mem, returned>>

Next ==
    \E t \in Threads :
        \/ \E kind \in Kinds, name \in Names, type \in Types :
               \/ \E length \in Lengths, try2find \in BOOLEAN :
                      Construct(t, kind, name, type, length, try2find)
               \/ destroy(t, kind, name, type)
        \/ \E b \in Blocks : destroy_ptr(t, b)
        \/ Constructed(t) \/ ConstructorThrew(t)
        \/ Destructed(t) \/ DestructorThrew(t) \/ Free(t)

Spec == Init /\ [][Next]_vars

-----------------------------------------------------------------------------
(* Properties.                                                             *)

\* The directories agree: an offset is in one entry of one directory, and a
\* name or type has one entry, so that get_instance_kind, get_instance_length
\* and the erase of priv_remove_attr_object find the object that was meant and
\* report the attributes it was registered with.
OneEntryPerObject ==
    /\ \A e, f \in AllEntries : e.offset = f.offset => e = f
    /\ \A k \in Kinds \ {"anonymous"} :
        \A e, f \in directory[k] : e.name = f.name => e = f
    /\ \A k \in Kinds : \A e \in directory[k] :
        /\ get_instance_kind(e.offset) = k
        /\ get_instance_name(e.offset) = e.name
        /\ get_instance_length(e.offset) = e.length
        /\ \A type \in Types : is_instance_type(e.offset, type) = (type = e.type)

Held == {ptr[t] : t \in {u \in Threads : pc[u] \in {"destructing", "freeing"}}}

\* "Memory is freed automatically if T's constructor throws": allocated memory
\* belongs to an entry, to the one call that is destroying or giving it back,
\* or to an object whose destructor threw; no entry refers to free memory, and
\* a destructor runs on a constructed object, once.
MemoryAccounted ==
    LET entered == {e.offset : e \in AllEntries} IN
    /\ {b \in Blocks : mem[b] # "free"} = entered \cup Held \cup abandoned
    /\ entered \cap (Held \cup abandoned) = {} /\ Held \cap abandoned = {}
    /\ \A t, u \in Threads :
        t # u /\ ptr[t] # None => ptr[t] # ptr[u]
    /\ \A t \in Threads : pc[t] = "destructing" => mem[ptr[t]] = "built"

\* find_or_construct "holds a pointer to the already constructed object".
FoundIsConstructed == \A t \in Threads : returned[t].built

-----------------------------------------------------------------------------
(* The inductive invariant of the proofs.                                  *)

TypeOK ==
    /\ directory \in [Kinds -> SUBSET Entry]
    /\ mem \in [Blocks -> {"free", "raw", "built"}]
    /\ pc \in [Threads -> {"idle", "constructing", "destructing", "freeing"}]
    /\ ptr \in [Threads -> Blocks \cup {None}]
    /\ abandoned \subseteq Blocks

Entered(b) == \E k \in Kinds : \E e \in directory[k] : e.offset = b

\* An offset is in one entry of one directory, of allocated memory; a name or
\* type has one entry in the directory of its kind.
EntriesApart ==
    /\ \A k, l \in Kinds : \A e \in directory[k], f \in directory[l] :
          e.offset = f.offset => k = l /\ e = f
    /\ \A k \in Kinds \ {"anonymous"} : \A e, f \in directory[k] : e.name = f.name => e = f
    /\ \A b \in Blocks : Entered(b) => mem[b] # "free"

\* A call works on a block no other call works on: one that is entered but not
\* constructed, or one that has left the directories.
CallOK(t) ==
    /\ pc[t] = "idle" <=> ptr[t] = None
    /\ pc[t] = "constructing" => Entered(ptr[t]) /\ mem[ptr[t]] = "raw"
    /\ pc[t] = "destructing" => ~Entered(ptr[t]) /\ mem[ptr[t]] = "built"
    /\ pc[t] = "freeing" => ~Entered(ptr[t]) /\ mem[ptr[t]] # "free"
    /\ ptr[t] \notin abandoned
    /\ \A u \in Threads \ {t} : ptr[t] # None => ptr[t] # ptr[u]

\* Memory that is not entered is free, or with the call that gives it back, or
\* was left by a destructor that threw.
BlockOK(b) ==
    /\ mem[b] # "free" => Entered(b) \/ b \in Held \cup abandoned
    /\ b \in abandoned => ~Entered(b) /\ mem[b] # "free"

ObjectsInv ==
    /\ TypeOK /\ EntriesApart
    /\ \A t \in Threads : CallOK(t)
    /\ \A b \in Blocks : BlockOK(b)
=============================================================================
