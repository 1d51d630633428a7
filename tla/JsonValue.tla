------------------------------ MODULE JsonValue ------------------------------
(***************************************************************************)
(* JSON values with allocators, json/value.hpp, array.hpp and              *)
(* details/compact_object.hpp, with their comparison (equal.hpp) and the   *)
(* conversions to and from Boost.JSON and text (value_to.hpp,              *)
(* value_from.hpp, serialize.hpp, parse.hpp).                              *)
(*                                                                         *)
(* A value keeps an allocator for what it may hold later; a string, array  *)
(* or object keeps the one its memory is from.  The allocator type is      *)
(* metall's, which propagates in no assignment and no swap.                *)
(***************************************************************************)
EXTENDS Integers, FiniteSets, SequencesExt

CONSTANTS
    Roots,        \* values of the program
    Allocators,
    Numbers,      \* the integers used
    Strings,      \* strings, and keys of objects
    CStr,         \* what is left of each string when it is read up to a NUL
    MaxInt,       \* INT64_MAX
    MaxNodes,     \* bound: values that all roots hold together
    None

VARIABLE root     \* the value each variable of the program holds

-----------------------------------------------------------------------------
(* Values.  `m_allocator' is the value's own, `owner' that of its data.    *)

Data(kind, scalar, owner, items) ==
    [kind |-> kind, scalar |-> scalar, owner |-> owner, items |-> items]
Value(a, data) == [m_allocator |-> a, data |-> data]
Item(key, v) == [key |-> key, value |-> v]

priv_reset == Data("null", None, None, <<>>)
Null(a) == Value(a, priv_reset)

Holds(v, kind) == v.data.kind = kind
Owned(v) == v.data.kind \in {"string", "array", "object"}

RECURSIVE Nodes(_)
Nodes(v) == 1 + FoldLeft(LAMBDA n, i : n + Nodes(i.value), 0, v.data.items)

\* The allocator-extended copy constructor: vectors pass their allocator on to
\* the elements they construct.
RECURSIVE CopyTo(_, _)
CopyTo(v, a) ==
    Value(a, IF Owned(v)
             THEN [v.data EXCEPT !.owner = a,
                      !.items = [i \in DOMAIN @ |-> Item(@[i].key, CopyTo(@[i].value, a))]]
             ELSE v.data)

\* The allocator-extended move constructor: memory of the same allocator is
\* taken over, else the elements are moved one by one.
MoveTo(v, a) == IF v.data.owner = a THEN Value(a, v.data) ELSE CopyTo(v, a)

\* Mutant: the variant is assigned, whose copy keeps the other's allocator.
AssignVariant(v, w) == Value(v.m_allocator, CopyTo(w, w.m_allocator).data)

\* operator=(const value &): an empty string, array or object of the value's own
\* allocator is made and assigned to.
CopyAssigned(v, w) == CopyTo(w, v.m_allocator)

MoveAssigned(v, w) == MoveTo(w, v.m_allocator)

-----------------------------------------------------------------------------
(* Comparison.                                                             *)

\* compact_object::find, by position; 0 is end().
find(v, key) ==
    LET at == {i \in DOMAIN v.data.items : v.data.items[i].key = key}
    IN  IF at = {} THEN 0 ELSE CHOOSE i \in at : \A j \in at : i <= j

Integral(v) == v.data.kind \in {"int64", "uint64"}

\* Mutant: a value is not equal to one of the other integral type.
RECURSIVE EqualKinds(_, _)
EqualKinds(v, w) ==
    /\ v.data.kind = w.data.kind
    /\ Owned(v) => Len(v.data.items) = Len(w.data.items)
    /\ v.data.scalar = w.data.scalar
    /\ \A i \in DOMAIN v.data.items : EqualKinds(v.data.items[i].value, w.data.items[i].value)

\* jsndtl::general_value_equal, general_array_equal, general_compact_object_equal.
\* Strings are compared up to a NUL of the second one.
RECURSIVE general_value_equal(_, _)
general_value_equal(v, w) ==
    CASE Integral(w) -> Integral(v) /\ v.data.scalar = w.data.scalar
      [] Holds(w, "object") ->
            /\ Holds(v, "object") /\ Len(v.data.items) = Len(w.data.items)
            /\ \A i \in DOMAIN v.data.items :
                  LET j == find(w, CStr[v.data.items[i].key])
                  IN  j # 0 /\ general_value_equal(v.data.items[i].value, w.data.items[j].value)
      [] Holds(w, "array") ->
            /\ Holds(v, "array") /\ Len(v.data.items) = Len(w.data.items)
            /\ \A i \in DOMAIN v.data.items :
                  general_value_equal(v.data.items[i].value, w.data.items[i].value)
      [] Holds(w, "string") -> Holds(v, "string") /\ v.data.scalar = CStr[w.data.scalar]
      [] OTHER -> v.data.kind = w.data.kind /\ v.data.scalar = w.data.scalar

-----------------------------------------------------------------------------
(* Conversions.  A boost::json::value is a value that has no allocators.    *)

\* object[key] = v: the mapped value is replaced, or the pair appended.
Put(items, key, v) ==
    LET at == {i \in DOMAIN items : items[i].key = key}
    IN  IF at = {} THEN Append(items, Item(key, v))
        ELSE [i \in DOMAIN items |-> IF i \in at THEN Item(key, v) ELSE items[i]]

\* value_to_impl_helper: strings and keys up to their first NUL.
RECURSIVE value_to(_)
value_to(v) ==
    Value(None, [v.data EXCEPT
        !.owner = None,
        !.scalar = IF Holds(v, "string") THEN CStr[@] ELSE @,
        !.items = IF Holds(v, "object")
                  THEN FoldLeft(LAMBDA s, i : Put(s, CStr[i.key], value_to(i.value)), <<>>, @)
                  ELSE [i \in DOMAIN @ |-> Item(None, value_to(@[i].value))]])

\* value_from_impl: elements are made with the allocator and moved into place.
RECURSIVE value_from(_, _)
value_from(b, a) ==
    Value(a, [b.data EXCEPT
        !.owner = IF Owned(b) THEN a ELSE None,
        !.items = IF Holds(b, "object")
                  THEN FoldLeft(LAMBDA s, i : Put(s, CStr[i.key], value_from(i.value, a)), <<>>, @)
                  ELSE [i \in DOMAIN @ |-> Item(None, MoveTo(value_from(@[i].value, a), a))]])

\* boost::json::serialize and parse: text does not tell the integral types
\* apart, and is read as int64 where that is wide enough.
RECURSIVE Text(_)
Text(b) ==
    Value(None, [b.data EXCEPT
        !.kind = IF Integral(b) THEN IF b.data.scalar <= MaxInt THEN "int64" ELSE "uint64" ELSE @,
        !.items = [i \in DOMAIN @ |-> Item(@[i].key, Text(@[i].value))]])

parse(text, a) == value_from(text, a)
serialize(v) == Text(value_to(v))

-----------------------------------------------------------------------------
(* What a program does with its values.                                    *)

Room(n) == FoldSet(LAMBDA r, k : k + Nodes(root[r]), 0, Roots) + n <= MaxNodes
Fits(r, v) == Room(Nodes(v) - Nodes(root[r]))
Set(r, v) == Fits(r, v) /\ root' = [root EXCEPT ![r] = v]
Both(r, v, q, w) == Fits(r, v) /\ root' = [root EXCEPT ![r] = v, ![q] = w]

Init == root \in [Roots -> {Null(a) : a \in Allocators}]

Alloc(r) == root[r].m_allocator

\* The assignments of numbers and strings, and the emplace functions.
AssignScalar(r) ==
    \E kind \in {"int64", "uint64"}, n \in Numbers :
        Set(r, Value(Alloc(r), Data(kind, n, None, <<>>)))
AssignString(r) == \E s \in Strings : Set(r, Value(Alloc(r), Data("string", s, Alloc(r), <<>>)))
emplace_array(r) == Set(r, Value(Alloc(r), Data("array", None, Alloc(r), <<>>)))
emplace_object(r) == Set(r, Value(Alloc(r), Data("object", None, Alloc(r), <<>>)))
emplace_null(r) == Set(r, Null(Alloc(r)))

CopyAssign(r, q) == r # q /\ Set(r, CopyAssigned(root[r], root[q]))
MoveAssign(r, q) == r # q /\ Both(r, MoveAssigned(root[r], root[q]), q, Null(Alloc(q)))

\* A value is destroyed and another one constructed in its place.
CopyConstruct(r, q, a) == r # q /\ Set(r, CopyTo(root[q], a))
MoveConstruct(r, q, a) == r # q /\ Both(r, MoveTo(root[q], a), q, Null(Alloc(q)))

\* Only values of the same allocator may be swapped.
swap(r, q) == r # q /\ Alloc(r) = Alloc(q) /\ Both(r, root[q], q, root[r])

WithItems(v, items) == [v EXCEPT !.data.items = items]
Items(r) == root[r].data.items
Owner(r) == root[r].data.owner

push_back(r, q) ==
    /\ r # q /\ Holds(root[r], "array")
    /\ \/ Set(r, WithItems(root[r], Append(Items(r), Item(None, CopyTo(root[q], Owner(r))))))
       \/ Both(r, WithItems(root[r], Append(Items(r), Item(None, MoveTo(root[q], Owner(r))))),
               q, Null(Alloc(q)))

\* array::resize
resize(r, n) ==
    /\ Holds(root[r], "array")
    /\ Set(r, WithItems(root[r], [i \in 1 .. n |->
              IF i \in DOMAIN Items(r) THEN Items(r)[i] ELSE Item(None, CopyTo(Null(Owner(r)), Owner(r)))]))

\* object[key] = q, which makes a null value first where there is none.
Subscript(r, key, q) ==
    /\ r # q /\ Holds(root[r], "object")
    /\ LET at == find(root[r], key)
           old == IF at = 0 THEN Null(Owner(r)) ELSE Items(r)[at].value
       IN  Set(r, WithItems(root[r], Put(Items(r), key, CopyAssigned(old, root[q]))))

\* erase of an array or an object, at a position or by key.
erase(r, i) ==
    /\ i \in DOMAIN Items(r)
    /\ Set(r, WithItems(root[r], RemoveAt(Items(r), i)))

\* r = parse(serialize(q)).  Text that cannot be parsed gives null.
Reparse(r, q) ==
    \/ Set(r, MoveAssigned(root[r], parse(serialize(root[q]), Alloc(r))))
    \/ Set(r, MoveAssigned(root[r], Null(Alloc(r))))

Next ==
    \E r, q \in Roots :
        \/ AssignScalar(r) \/ AssignString(r)
        \/ emplace_null(r) \/ emplace_array(r) \/ emplace_object(r)
        \/ CopyAssign(r, q) \/ MoveAssign(r, q) \/ swap(r, q)
        \/ \E a \in Allocators : CopyConstruct(r, q, a) \/ MoveConstruct(r, q, a)
        \/ push_back(r, q) \/ Reparse(r, q)
        \/ \E n \in 0 .. MaxNodes : resize(r, n) \/ erase(r, n)
        \/ \E key \in Strings : Subscript(r, key, q)

Spec == Init /\ [][Next]_root

-----------------------------------------------------------------------------
(* Properties.                                                             *)

RECURSIVE InOne(_, _)
InOne(v, a) ==
    /\ v.m_allocator = a
    /\ v.data.owner = IF Owned(v) THEN a ELSE None
    /\ \A i \in DOMAIN v.data.items : InOne(v.data.items[i].value, a)

\* A value and all that it holds, however deep, are in the memory of one
\* allocator, whatever values of other allocators it was copied, moved or parsed
\* from: a value in a data store never leads out of the store.
OneAllocator == \A r \in Roots : InOne(root[r], Alloc(r))

\* What a value says, without allocators, the order of pairs and the integral type.
RECURSIVE Meaning(_)
Meaning(v) ==
    <<IF Integral(v) THEN "integer" ELSE v.data.kind, v.data.scalar,
      {<<IF Holds(v, "object") THEN v.data.items[i].key ELSE i,
         Meaning(v.data.items[i].value)>> : i \in DOMAIN v.data.items}>>

RECURSIVE NulFree(_)
NulFree(v) ==
    /\ Holds(v, "string") => CStr[v.data.scalar] = v.data.scalar
    /\ \A i \in DOMAIN v.data.items :
          /\ Holds(v, "object") => CStr[v.data.items[i].key] = v.data.items[i].key
          /\ NulFree(v.data.items[i].value)

\* Two values without NULs are equal when they say the same ("equal when they
\* are the same kind and their referenced values are equal, or when they are
\* both integral types and their integral representations are equal"), and a
\* value that was converted or written and parsed again equals the old one,
\* also as an operand of the mixed comparisons with Boost.JSON.
ComparedAndConverted ==
    \A r, q \in Roots : NulFree(root[r]) /\ NulFree(root[q]) =>
        /\ general_value_equal(root[r], root[q]) <=> Meaning(root[r]) = Meaning(root[q])
        /\ general_value_equal(root[r], value_to(root[r]))
        /\ general_value_equal(parse(serialize(root[r]), Alloc(q)), root[r])
        /\ InOne(parse(serialize(root[r]), Alloc(q)), Alloc(q))
=============================================================================
