---------------------------- MODULE ConcurrentMap ----------------------------
(***************************************************************************)
(* The map for concurrent insertion, container/concurrent_map.hpp: banks   *)
(* of ordered maps, each under a mutex of its own, with one item counter   *)
(* for all; and the iterator over the banks,                               *)
(* utility/container_of_containers_iterator_adaptor.hpp.                   *)
(*                                                                         *)
(* A mapped value counts the edits of its key.  Counter and edits are read *)
(* and written in steps of their own.                                      *)
(***************************************************************************)
EXTENDS Integers, SequencesExt

CONSTANTS
    Threads,
    BankOf,      \* calc_bank_no: the bank of each key, keys being numbers
    NumBanks,    \* k_num_banks
    MaxEdits,    \* bound: edits of a key
    None

Keys == DOMAIN BankOf
Banks == 0 .. NumBanks - 1

VARIABLES
    m_banked_map,   \* the mapped value of each key, or None
    m_num_items,
    mutex,          \* utility::mutex: the thread that holds each bank's, or None
    call,           \* each thread: its call, key, next step and what it read
    made            \* history: the edits made

vars == <<m_banked_map, m_num_items, mutex, call, made>>

Idle == [op |-> "none", at |-> "idle", key |-> None, seen |-> 0]

Init == /\ m_banked_map = [k \in Keys |-> None]
        /\ m_num_items = 0
        /\ mutex = [b \in Banks |-> None]
        /\ call = [t \in Threads |-> Idle]
        /\ made = [k \in Keys |-> 0]

Key(t) == call[t].key
At(t, step) == call[t].at = step
Goto(t, step, seen) == call' = [call EXCEPT ![t].at = step, ![t].seen = seen]

\* insert, edit, and scoped_edit, whose caller edits while it keeps the lock.
Call(t, op, k) ==
    /\ call[t] = Idle
    /\ op = "edit" => made[k] < MaxEdits
    /\ call' = [call EXCEPT ![t] = [op |-> op, at |-> "lock", key |-> k, seen |-> 0]]
    /\ UNCHANGED <<m_banked_map, m_num_items, mutex, made>>

\* Mutant: the mutex is not waited for.
LockAnyway(t) ==
    /\ At(t, "lock")
    /\ mutex' = [mutex EXCEPT ![BankOf[Key(t)]] = t]
    /\ Goto(t, "locked", 0)
    /\ UNCHANGED <<m_banked_map, m_num_items, made>>

mutex_lock(t) ==
    /\ At(t, "lock")
    /\ mutex[BankOf[Key(t)]] = None
    /\ mutex' = [mutex EXCEPT ![BankOf[Key(t)]] = t]
    /\ Goto(t, "locked", 0)
    /\ UNCHANGED <<m_banked_map, m_num_items, made>>

\* The key is inserted, or registered with a default value, unless it is there;
\* then the counter, which is not atomic, is read ...
Register(t) ==
    /\ At(t, "locked")
    /\ IF m_banked_map[Key(t)] = None
       THEN /\ m_banked_map' = [m_banked_map EXCEPT ![Key(t)] = 0]
            /\ Goto(t, "count", m_num_items)
       ELSE /\ Goto(t, IF call[t].op = "edit" THEN "edit" ELSE "unlock", 0)
            /\ UNCHANGED m_banked_map
    /\ UNCHANGED <<m_num_items, mutex, made>>

\* ... and written.
CountItem(t) ==
    /\ At(t, "count")
    /\ m_num_items' = call[t].seen + 1
    /\ Goto(t, IF call[t].op = "edit" THEN "edit" ELSE "unlock", 0)
    /\ UNCHANGED <<m_banked_map, mutex, made>>

\* The caller's editor reads and writes the value.
Edit(t) ==
    /\ \/ At(t, "edit") /\ Goto(t, "write", m_banked_map[Key(t)])
          /\ UNCHANGED <<m_banked_map, made>>
       \/ At(t, "write") /\ Goto(t, "unlock", 0)
          /\ m_banked_map' = [m_banked_map EXCEPT ![Key(t)] = call[t].seen + 1]
          /\ made' = [made EXCEPT ![Key(t)] = @ + 1]
    /\ UNCHANGED <<m_num_items, mutex>>

Unlock(t) ==
    /\ At(t, "unlock")
    /\ mutex' = [mutex EXCEPT ![BankOf[Key(t)]] = None]
    /\ call' = [call EXCEPT ![t] = Idle]
    /\ UNCHANGED <<m_banked_map, m_num_items, made>>

Next == \E t \in Threads :
            \/ \E op \in {"insert", "edit"}, k \in Keys : Call(t, op, k)
            \/ mutex_lock(t) \/ Register(t) \/ CountItem(t) \/ Edit(t) \/ Unlock(t)

Spec == Init /\ [][Next]_vars

-----------------------------------------------------------------------------
(* Iteration.  An iterator is a bank, the keys of the bank that are left    *)
(* from the current one on, and NumBanks is the end.                        *)

Bank(b) == SetToSortSeq({k \in Keys : BankOf[k] = b /\ m_banked_map[k] # None}, <)

cend == [outer |-> NumBanks, inner |-> <<>>]

\* The loop of next(): the first bank after b that is not empty.
NextBank(b) ==
    LET later == {c \in b + 1 .. NumBanks - 1 : Bank(c) # <<>>}
    IN  IF later = {} THEN cend
        ELSE [outer |-> Min(later), inner |-> Bank(Min(later))]

next(it) ==
    IF it.outer = NumBanks THEN it
    ELSE IF Len(it.inner) > 1 THEN [it EXCEPT !.inner = Tail(@)]
    ELSE NextBank(it.outer)

cbegin == IF Bank(0) # <<>> THEN [outer |-> 0, inner |-> Bank(0)] ELSE NextBank(0)

\* find: count(key), and an iterator to the element.
find(k) == IF m_banked_map[k] = None THEN cend
           ELSE [outer |-> 0, inner |-> SelectSeq(Bank(BankOf[k]), LAMBDA j : j >= k)]

\* The keys met from cbegin() to cend().
Walk == LET it[n \in 0 .. Cardinality(Keys)] ==
              IF n = 0 THEN cbegin ELSE next(it[n - 1])
            ends == {n \in DOMAIN it : it[n] = cend}
        IN  [n \in 1 .. Min(ends) |-> Head(it[n - 1].inner)]

-----------------------------------------------------------------------------
(* Properties.                                                             *)

\* No insertion and no edit is lost, whatever threads do at the same time:
\* iteration meets every registered key once, find leads to it and to nothing
\* else, its value counts all edits made, and size() is not above the number of
\* keys.  (It may be below: increments in different banks race.)
EditsKept ==
    LET present == {k \in Keys : m_banked_map[k] # None} IN
    /\ IsInjective(Walk) /\ ToSet(Walk) = present
    /\ \A k \in Keys : IF k \in present THEN Head(find(k).inner) = k
                       ELSE find(k) = cend
    /\ \A k \in Keys : IF k \in present THEN m_banked_map[k] = made[k] ELSE made[k] = 0
    /\ m_num_items <= Cardinality(present)
=============================================================================
