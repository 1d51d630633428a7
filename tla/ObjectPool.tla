----------------------------- MODULE ObjectPool -----------------------------
(***************************************************************************)
(* What the caches of small objects promise: every object is in exactly    *)
(* one place, free in the chunks, cached, or held by a client.             *)
(***************************************************************************)
CONSTANT Object

VARIABLES free, cached, live

poolVars == <<free, cached, live>>

PoolInit == free = Object /\ cached = {} /\ live = {}

\* A client gets a cached object.
Take(o) ==
    /\ o \in cached
    /\ cached' = cached \ {o}
    /\ live' = live \cup {o}
    /\ UNCHANGED free

\* A batch of free objects enters a cache; one of them may go to a client.
Refill(S, T) ==
    /\ S \subseteq free /\ T \subseteq S
    /\ \A o, p \in T : o = p
    /\ free' = free \ S
    /\ cached' = cached \cup (S \ T)
    /\ live' = live \cup T

\* A client gives an object back.
Give(o) ==
    /\ o \in live
    /\ live' = live \ {o}
    /\ cached' = cached \cup {o}
    /\ UNCHANGED free

\* Cached objects are freed.
Release(S) ==
    /\ S \subseteq cached
    /\ cached' = cached \ S
    /\ free' = free \cup S
    /\ UNCHANGED live

PoolNext == \/ \E o \in Object : Take(o) \/ Give(o)
            \/ \E S \in SUBSET free : \E T \in SUBSET S : Refill(S, T)
            \/ \E S \in SUBSET cached : Release(S)

PoolSpec == PoolInit /\ [][PoolNext]_poolVars
=============================================================================
