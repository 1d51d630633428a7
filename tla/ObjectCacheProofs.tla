------------------------- MODULE ObjectCacheProofs -------------------------
(***************************************************************************)
(* Proofs about the caches of small objects (ObjectCache).                 *)
(*                                                                         *)
(* What the pointers of the blocks say is stated with an order instead of  *)
(* with sequences: there is a relation "is older than" that orders the     *)
(* blocks in use, and every pointer leads to the neighbour in that order   *)
(* (in the whole list, or among the blocks of the bin).  Taking a block    *)
(* out of a list then changes the set and not the order, and putting one   *)
(* in front makes it the greatest one.  That the walks of the code meet    *)
(* the blocks of a list in that order, each one once, is shown by          *)
(* induction on the length of the walk.                                    *)
(***************************************************************************)
EXTENDS ObjectCache, WellFoundedInduction, TLAPS

-----------------------------------------------------------------------------
(* Induction on the natural numbers, for a set of numbers. *)

LEMMA LeastNumber ==
    ASSUME NEW T \in SUBSET Nat, T # {}
    PROVE  \E x \in T : \A y \in T : x <= y
<1> DEFINE R == OpToRel(<, Nat)
<1>1. IsWellFoundedOn(R, Nat)
  BY Zenon, NatLessThanWellFounded
<1>2. \A y, x \in Nat : y < x => <<y, x>> \in R
  BY Zenon DEF OpToRel
<1> HIDE DEF R
<1>3. \E x \in T : \A y \in T : ~(<<y, x>> \in R)
  BY Zenon, <1>1, WFMin
<1>4. PICK x \in T : \A y \in T : ~(<<y, x>> \in R)
  BY Zenon, <1>3
<1>5. \A y \in T : ~(y < x)
  BY Zenon, <1>2, <1>4
<1> QED BY <1>5

\* A set of numbers with 0 and with every successor up to N has all up to N.
LEMMA UpTo ==
    ASSUME NEW N \in Nat, NEW S, 0 \in S,
           \A n \in 0 .. N : n \in S /\ n < N => n + 1 \in S
    PROVE  \A n \in 0 .. N : n \in S
<1> SUFFICES ASSUME (0 .. N) \ S # {} PROVE FALSE
  OBVIOUS
<1>1. (0 .. N) \ S \in SUBSET Nat
  OBVIOUS
<1>2. PICK x \in (0 .. N) \ S : \A y \in (0 .. N) \ S : x <= y
  BY Zenon, <1>1, LeastNumber
<1>3. x # 0 /\ x - 1 \in 0 .. N /\ x - 1 \in S
  BY <1>2
<1> QED BY <1>2, <1>3

\* n different numbers up to n are all of them.
OneToOne(n, s) == \A i, j \in 1 .. n : s[i] = s[j] => i = j
Onto(n, s) == \A y \in 1 .. n : \E i \in 1 .. n : s[i] = y

LEMMA Pigeonhole ==
    ASSUME NEW N \in Nat, NEW s \in [1 .. N -> 1 .. N], OneToOne(N, s)
    PROVE  Onto(N, s)
<1> DEFINE Full(n) == \A f \in [1 .. n -> 1 .. n] : OneToOne(n, f) => Onto(n, f)
           S == {n \in Nat : Full(n)}
<1>1. 0 \in S
  BY DEF Onto
<1>2. ASSUME NEW n \in 0 .. N, n \in S, n < N PROVE n + 1 \in S
  <2> SUFFICES ASSUME NEW f \in [1 .. n + 1 -> 1 .. n + 1], OneToOne(n + 1, f)
               PROVE  Onto(n + 1, f)
    <3>1. n + 1 \in Nat
      OBVIOUS
    <3> QED BY Zenon, <3>1
  <2>0. \A i \in 1 .. n : i \in 1 .. n + 1
    OBVIOUS
  <2>1. n + 1 \in 1 .. n + 1 /\ n + 1 \notin 1 .. n /\ \A i \in 1 .. n + 1 : i \in 1 .. n \/ i = n + 1
    <3>1. n \in Nat
      OBVIOUS
    <3> HIDE DEF S
    <3> QED BY <3>1
  <2>2. PICK k \in 1 .. n + 1 : k = f[n + 1]
    BY Zenon, <2>1
  <2> DEFINE g == [i \in 1 .. n |-> IF f[i] = n + 1 THEN k ELSE f[i]]
  <2>3. \A i \in 1 .. n : f[i] \in 1 .. n + 1 /\ f[i] # k
    BY <2>1, <2>2 DEF OneToOne
  <2>4. g \in [1 .. n -> 1 .. n]
    BY Zenon, <2>1, <2>3
  <2>5. \A i \in 1 .. n : g[i] = IF f[i] = n + 1 THEN k ELSE f[i]
    OBVIOUS
  <2> HIDE DEF g
  <2>6. OneToOne(n, g)
    <3>1. \A i, j \in 1 .. n : f[i] = f[j] => i = j
      BY Zenon, <2>0 DEF OneToOne
    <3> QED BY ZenonT(60), <2>3, <2>5, <3>1 DEF OneToOne
  <2>7. Onto(n, g)
    BY Zenon, <1>2, <2>4, <2>6
  <2>8. ASSUME NEW y \in 1 .. n + 1 PROVE \E i \in 1 .. n + 1 : f[i] = y
    <3>1. CASE y = k
      BY Zenon, <2>1, <2>2, <3>1
    <3>2. CASE y # k /\ y \in 1 .. n
      <4>1. PICK i \in 1 .. n : g[i] = y
        BY Zenon, <2>7, <3>2 DEF Onto
      <4> QED BY Zenon, <2>0, <2>5, <3>2, <4>1
    <3>3. CASE y # k /\ y = n + 1
      <4>1. PICK i \in 1 .. n : g[i] = k
        BY Zenon, <2>1, <2>2, <2>7, <3>3 DEF Onto
      <4> QED BY <2>1, <2>3, <2>5, <3>3, <4>1
    <3> QED BY Zenon, <2>1, <3>1, <3>2, <3>3
  <2> QED BY Zenon, <2>8 DEF Onto
<1>3. N \in S
  <2> HIDE DEF S
  <2>1. \A n \in 0 .. N : n \in S /\ n < N => n + 1 \in S
    BY Zenon, <1>2
  <2>2. \A n \in 0 .. N : n \in S
    BY Zenon, <1>1, <2>1, UpTo
  <2> QED BY <2>2
<1>4. Full(N)
  BY Zenon, <1>3
<1> QED BY Zenon, <1>4

-----------------------------------------------------------------------------
(* Orders and neighbours.  ord[x] has the blocks older than x. *)

Ordered(S, ord) ==
    /\ \A x \in S : x \notin ord[x]
    /\ \A x, y \in S : x = y \/ x \in ord[y] \/ y \in ord[x]
    /\ \A x, y, z \in S : x \in ord[y] /\ y \in ord[z] => x \in ord[z]

\* y is the next older one after x in S, or null.
Below(S, ord, x, y) ==
    /\ y = Nil => \A z \in S : z \notin ord[x]
    /\ y # Nil => /\ y \in S /\ y \in ord[x]
                  /\ \A z \in S : z \in ord[x] => z = y \/ z \in ord[y]

\* y is the next newer one, or null.
Above(S, ord, x, y) ==
    /\ y = Nil => \A z \in S : x \notin ord[z]
    /\ y # Nil => /\ y \in S /\ x \in ord[y]
                  /\ \A z \in S : x \in ord[z] => z = y \/ y \in ord[z]

\* x is the newest, the oldest one of S, or null if there is none.
Top(S, ord, x) ==
    /\ x = Nil => S = {}
    /\ x # Nil => x \in S /\ \A z \in S : z = x \/ z \in ord[x]

Bottom(S, ord, x) ==
    /\ x = Nil => S = {}
    /\ x # Nil => x \in S /\ \A z \in S : z = x \/ x \in ord[z]

\* Both orders say the same of the members of S.
SameOn(S, ord, new) == \A x, z \in S : z \in new[x] <=> z \in ord[x]

\* The new order has k above the members of S.
OnTop(S, ord, k, new) ==
    /\ SameOn(S, ord, new)
    /\ k \notin new[k]
    /\ \A z \in S : z \in new[k] /\ k \notin new[z]

\* The order once k is in front of S.
Put(ord, k, S) == [x \in Block |-> IF x = k THEN S ELSE ord[x] \ {k}]

LEMMA NilIsNoBlock == Nil \notin Block
BY DEF Nil, Block

LEMMA PutOrder ==
    ASSUME NEW ord \in [Block -> SUBSET Block], NEW k \in Block,
           NEW S \in SUBSET Block, k \notin S, NEW T \in SUBSET Block, k \notin T
    PROVE  /\ Put(ord, k, S) \in [Block -> SUBSET Block]
           /\ OnTop(S, ord, k, Put(ord, k, S))
           /\ SameOn(T, ord, Put(ord, k, S))
BY Zenon DEF Put, OnTop, SameOn

\* A neighbour's neighbour.
LEMMA Neighbours ==
    ASSUME NEW S, NEW ord, Ordered(S, ord), NEW x \in S, NEW k \in S,
           Nil \notin S, NEW n, Above(S, ord, k, n), NEW d, Below(S, ord, x, d)
    PROVE  x = n <=> d = k
BY ZenonT(60) DEF Ordered, Above, Below

\* Taking k out of the list.
LEMMA OrderedWithout ==
    ASSUME NEW S, NEW ord, NEW new, NEW k \in S, Ordered(S, ord),
           SameOn(S \ {k}, ord, new)
    PROVE  Ordered(S \ {k}, new)
BY ZenonT(60) DEF Ordered, SameOn

LEMMA BelowWithout ==
    ASSUME NEW S, NEW ord, NEW new, NEW k \in S, Ordered(S, ord), Nil \notin S,
           SameOn(S \ {k}, ord, new),
           NEW x \in S \ {k}, NEW y, Below(S, ord, x, y),
           NEW d, Below(S, ord, k, d),
           NEW v, y = k => v = d, y # k => v = y
    PROVE  Below(S \ {k}, new, x, v)
<1>1. CASE y = k
  <2>1. CASE d = Nil
    BY Zenon, <1>1, <2>1 DEF Ordered, Below, SameOn
  <2>2. CASE d # Nil
    BY ZenonT(60), <1>1, <2>2 DEF Ordered, Below, SameOn
  <2> QED BY Zenon, <2>1, <2>2
<1>2. CASE y # k
  BY ZenonT(60), <1>2 DEF Ordered, Below, SameOn
<1> QED BY Zenon, <1>1, <1>2

LEMMA AboveWithout ==
    ASSUME NEW S, NEW ord, NEW new, NEW k \in S, Ordered(S, ord), Nil \notin S,
           SameOn(S \ {k}, ord, new),
           NEW x \in S \ {k}, NEW y, Above(S, ord, x, y),
           NEW d, Above(S, ord, k, d),
           NEW v, y = k => v = d, y # k => v = y
    PROVE  Above(S \ {k}, new, x, v)
<1>1. CASE y = k
  <2>1. CASE d = Nil
    BY Zenon, <1>1, <2>1 DEF Ordered, Above, SameOn
  <2>2. CASE d # Nil
    BY ZenonT(60), <1>1, <2>2 DEF Ordered, Above, SameOn
  <2> QED BY <2>1, <2>2
<1>2. CASE y # k
  BY SMT, <1>2 DEF Ordered, Above, SameOn
<1> QED BY <1>1, <1>2

LEMMA TopWithout ==
    ASSUME NEW S, NEW ord, NEW new, NEW k \in S, Ordered(S, ord), Nil \notin S,
           SameOn(S \ {k}, ord, new),
           NEW y, Top(S, ord, y), NEW d, Below(S, ord, k, d),
           NEW v, y = k => v = d, y # k => v = y
    PROVE  Top(S \ {k}, new, v)
<1>1. CASE y = k
  <2>1. CASE d = Nil
    BY Zenon, <1>1, <2>1 DEF Ordered, Below, Top, SameOn
  <2>2. CASE d # Nil
    BY SMT, <1>1, <2>2 DEF Ordered, Below, Top, SameOn
  <2> QED BY Zenon, <2>1, <2>2
<1>2. CASE y # k
  BY Zenon, <1>2 DEF Ordered, Top, SameOn
<1> QED BY Zenon, <1>1, <1>2

LEMMA BottomWithout ==
    ASSUME NEW S, NEW ord, NEW new, NEW k \in S, Ordered(S, ord), Nil \notin S,
           SameOn(S \ {k}, ord, new),
           NEW y, Bottom(S, ord, y), NEW d, Above(S, ord, k, d),
           NEW v, y = k => v = d, y # k => v = y
    PROVE  Bottom(S \ {k}, new, v)
<1>1. CASE y = k
  <2>1. CASE d = Nil
    BY Zenon, <1>1, <2>1 DEF Ordered, Above, Bottom, SameOn
  <2>2. CASE d # Nil
    BY ZenonT(60), <1>1, <2>2 DEF Ordered, Above, Bottom, SameOn
  <2> QED BY <2>1, <2>2
<1>2. CASE y # k
  BY ZenonT(60), <1>2 DEF Ordered, Bottom, SameOn
<1> QED BY <1>1, <1>2

\* Putting k in front of the list.
LEMMA OrderedWith ==
    ASSUME NEW S, NEW ord, NEW new, NEW k, k \notin S, k # Nil, Ordered(S, ord),
           OnTop(S, ord, k, new)
    PROVE  Ordered(S \cup {k}, new) /\ Top(S \cup {k}, new, k)
<1>1. Ordered(S \cup {k}, new)
  BY SMT DEF Ordered, OnTop, SameOn
<1>2. Top(S \cup {k}, new, k)
  BY Zenon DEF Top, OnTop, SameOn
<1> QED BY Zenon, <1>1, <1>2

LEMMA BelowWith ==
    ASSUME NEW S, NEW ord, NEW new, NEW k, k \notin S, OnTop(S, ord, k, new),
           NEW t, Top(S, ord, t)
    PROVE  /\ Below(S \cup {k}, new, k, t)
           /\ \A x \in S : \A y : Below(S, ord, x, y) => Below(S \cup {k}, new, x, y)
<1>1. Below(S \cup {k}, new, k, t)
  BY Zenon DEF Below, Top, OnTop, SameOn
<1>2. ASSUME NEW x \in S, NEW y, Below(S, ord, x, y)
      PROVE  Below(S \cup {k}, new, x, y)
  BY Zenon, <1>2 DEF Below, OnTop, SameOn
<1> QED BY Zenon, <1>1, <1>2

LEMMA AboveWith ==
    ASSUME NEW S, NEW ord, NEW new, NEW k, k \notin S, OnTop(S, ord, k, new),
           Nil \notin S, k # Nil, Ordered(S, ord), NEW t, Top(S, ord, t)
    PROVE  /\ Above(S \cup {k}, new, k, Nil)
           /\ \A x \in S : \A y, v :
                 Above(S, ord, x, y) /\ (x = t => v = k) /\ (x # t => v = y)
                    => Above(S \cup {k}, new, x, v)
<1>1. Above(S \cup {k}, new, k, Nil)
  BY Zenon DEF Above, OnTop, SameOn
<1>2. ASSUME NEW x \in S, NEW y, NEW v, Above(S, ord, x, y),
             x = t => v = k, x # t => v = y
      PROVE  Above(S \cup {k}, new, x, v)
  <2>1. CASE x = t
    <3>1. \A z \in S : x \notin ord[z]
      BY Zenon, <2>1 DEF Ordered, Top
    <3> QED BY Zenon, <1>2, <2>1, <3>1 DEF Above, OnTop, SameOn
  <2>2. CASE x # t
    <3>1. y # Nil
      BY Zenon, <1>2, <2>2 DEF Ordered, Above, Top
    <3> QED BY Zenon, <1>2, <2>2, <3>1 DEF Above, OnTop, SameOn
  <2> QED BY Zenon, <2>1, <2>2
<1> QED BY Zenon, <1>1, <1>2

LEMMA BottomWith ==
    ASSUME NEW S, NEW ord, NEW new, NEW k, k \notin S, OnTop(S, ord, k, new),
           Nil \notin S, k # Nil, NEW y, Bottom(S, ord, y),
           NEW v, y = Nil => v = k, y # Nil => v = y
    PROVE  Bottom(S \cup {k}, new, v)
BY Zenon DEF Bottom, OnTop, SameOn

\* A list of which k is no member.
LEMMA SameLists ==
    ASSUME NEW S, NEW ord, NEW new, SameOn(S, ord, new)
    PROVE  /\ Ordered(S, ord) => Ordered(S, new)
           /\ \A x : Top(S, ord, x) => Top(S, new, x)
           /\ \A x : Bottom(S, ord, x) => Bottom(S, new, x)
           /\ \A x \in S : \A y : Below(S, ord, x, y) => Below(S, new, x, y)
           /\ \A x \in S : \A y : Above(S, ord, x, y) => Above(S, new, x, y)
<1>1. Ordered(S, ord) => Ordered(S, new)
  BY Zenon DEF Ordered, SameOn
<1>2. \A x : Top(S, ord, x) => Top(S, new, x)
  BY Zenon DEF Top, SameOn
<1>3. \A x : Bottom(S, ord, x) => Bottom(S, new, x)
  BY Zenon DEF Bottom, SameOn
<1>4. \A x \in S : \A y : Below(S, ord, x, y) => Below(S, new, x, y)
  BY Zenon DEF Below, SameOn
<1>5. \A x \in S : \A y : Above(S, ord, x, y) => Above(S, new, x, y)
  BY Zenon DEF Above, SameOn
<1> QED BY Zenon, <1>1, <1>2, <1>3, <1>4, <1>5

-----------------------------------------------------------------------------
(* Walks. *)

LEMMA NumBlocksType == NumBlocks \in Nat /\ NumBlocks # 0
BY Zenon, CacheAssumption

\* The function that Walk computes exists.
LEMMA WalkSteps ==
    ASSUME NEW first, NEW next
    PROVE  \E w : /\ Walk(first, next) = w[NumBlocks]
                  /\ w = [n \in 0 .. NumBlocks |->
                            IF n = 0 THEN <<>> ELSE Onward(first, next, w[n - 1])]
<1> DEFINE Is(w, N) == w = [n \in 0 .. N |->
                              IF n = 0 THEN <<>> ELSE Onward(first, next, w[n - 1])]
           S == {N \in 0 .. NumBlocks : \E w : Is(w, N)}
           walk[n \in 0 .. NumBlocks] ==
              IF n = 0 THEN <<>> ELSE Onward(first, next, walk[n - 1])
<1>1. 0 \in S
  <2> DEFINE w == [n \in 0 .. 0 |-> <<>>]
  <2>1. Is(w, 0)
    OBVIOUS
  <2> HIDE DEF w, Is
  <2> QED BY <2>1, NumBlocksType
<1>2. ASSUME NEW n \in 0 .. NumBlocks, n \in S, n < NumBlocks
      PROVE  n + 1 \in S
  <2>1. PICK w : Is(w, n)
    BY Zenon, <1>2
  <2> DEFINE v == [m \in 0 .. n + 1 |->
                     IF m = n + 1 THEN Onward(first, next, w[n]) ELSE w[m]]
  <2>2. n \in Nat /\ n + 1 \in 0 .. NumBlocks
    BY <1>2, NumBlocksType
  <2>3. \A m \in 0 .. n + 1 :
           v[m] = IF m = 0 THEN <<>> ELSE Onward(first, next, v[m - 1])
    <3> SUFFICES ASSUME NEW m \in 0 .. n + 1
                 PROVE  v[m] = IF m = 0 THEN <<>> ELSE Onward(first, next, v[m - 1])
      OBVIOUS
    <3>1. CASE m = n + 1
      <4>1. v[m - 1] = w[n]
        BY <2>2, <3>1
      <4> QED BY <2>2, <3>1, <4>1
    <3>2. CASE m = 0
      BY <2>1, <2>2, <3>2
    <3>3. CASE m # 0 /\ m # n + 1
      <4>1. m \in 0 .. n /\ m - 1 \in 0 .. n /\ m - 1 \in 0 .. n + 1 /\ m - 1 # n + 1
        BY <2>2, <3>3
      <4>2. v[m] = w[m] /\ v[m - 1] = w[m - 1]
        BY Zenon, <3>3, <4>1
      <4>3. w[m] = Onward(first, next, w[m - 1])
        BY Zenon, <2>1, <3>3, <4>1
      <4> QED BY Zenon, <3>3, <4>2, <4>3
    <3> QED BY Zenon, <3>1, <3>2, <3>3
  <2>4. v = [m \in DOMAIN v |-> v[m]] /\ DOMAIN v = 0 .. n + 1
    OBVIOUS
  <2> HIDE DEF v
  <2>5. Is(v, n + 1)
    BY Zenon, <2>3, <2>4
  <2> HIDE DEF Is
  <2> QED BY Zenon, <2>2, <2>5
<1>3. NumBlocks \in S
  <2> HIDE DEF S
  <2>1. \A n \in 0 .. NumBlocks : n \in S
    BY Zenon, <1>1, <1>2, NumBlocksType, UpTo
  <2> QED BY <2>1, NumBlocksType
<1>4. \E w : w = [n \in 0 .. NumBlocks |->
                    IF n = 0 THEN <<>> ELSE Onward(first, next, w[n - 1])]
  BY Zenon, <1>3
<1>5. Walk(first, next) = walk[NumBlocks]
  BY Zenon DEF Walk
<1>6. walk = [n \in 0 .. NumBlocks |->
                IF n = 0 THEN <<>> ELSE Onward(first, next, walk[n - 1])]
  BY Zenon, <1>4
<1> HIDE DEF walk
<1> QED BY Zenon, <1>5, <1>6

\* What a walk along the list S has seen after n rounds.
Along(S, ord, first, next, n, s) ==
    /\ s \in Seq(S) /\ Len(s) <= n
    /\ \A i, j \in 1 .. Len(s) : i < j => s[j] \in ord[s[i]]
    /\ Len(s) # 0 => s[1] = first
    /\ \A i \in 1 .. Len(s) : i < Len(s) => next[s[i]] = s[i + 1]
    /\ \A z \in S : \/ \E i \in 1 .. Len(s) : s[i] = z
                    \/ \A i \in 1 .. Len(s) : z \in ord[s[i]]
    /\ Len(s) < n => /\ Len(s) = 0 => first = Nil
                     /\ Len(s) # 0 => next[s[Len(s)]] = Nil

\* s is the list S from the newest block to the oldest one.
Lists(S, ord, first, next, s) ==
    /\ s \in Seq(S) /\ Range(s) = S /\ DOMAIN s = 1 .. Len(s)
    /\ \A i, j \in 1 .. Len(s) : i < j => s[j] \in ord[s[i]]
    /\ \A i, j \in 1 .. Len(s) : s[i] = s[j] => i = j
    /\ Len(s) = 0 <=> first = Nil
    /\ Len(s) # 0 => s[1] = first /\ next[s[Len(s)]] = Nil
    /\ \A i \in 1 .. Len(s) : i < Len(s) => next[s[i]] = s[i + 1]

LEMMA OneRound ==
    ASSUME NEW S \in SUBSET Block, NEW ord, Ordered(S, ord),
           NEW first, Top(S, ord, first),
           NEW next, \A x \in S : Below(S, ord, x, next[x]),
           NEW n \in Nat, NEW s, Along(S, ord, first, next, n, s)
    PROVE  Along(S, ord, first, next, n + 1, Onward(first, next, s))
<1> DEFINE k == IF s = <<>> THEN first ELSE next[s[Len(s)]]
           t == Append(s, k)
<1>1. s \in Seq(S) /\ Len(s) \in Nat /\ Len(s) <= n /\ (s = <<>> <=> Len(s) = 0)
  BY DEF Along
<1>2. CASE k = Nil
  <2>1. Onward(first, next, s) = s
    BY Zenon, <1>2 DEF Onward
  <2>2. /\ Len(s) <= n + 1
        /\ Len(s) = 0 => first = Nil
        /\ Len(s) # 0 => next[s[Len(s)]] = Nil
    BY <1>1, <1>2
  <2> QED BY Zenon, <2>1, <2>2 DEF Along
<1>3. CASE k # Nil
  <2>1. Onward(first, next, s) = t
    BY Zenon, <1>3 DEF Onward
  <2>2. Len(s) = n
    BY <1>1, <1>3 DEF Along
  <2>3. Len(s) # 0 => s[Len(s)] \in S /\ Len(s) \in 1 .. Len(s)
    BY <1>1
  <2>4. Len(s) # 0 => Below(S, ord, s[Len(s)], k)
    BY Zenon, <1>1, <2>3
  <2>5. /\ k \in S
        /\ Len(s) = 0 => \A z \in S : z = k \/ z \in ord[k]
        /\ Len(s) # 0 => /\ k \in ord[s[Len(s)]]
                         /\ \A z \in S : z \in ord[s[Len(s)]] => z = k \/ z \in ord[k]
    <3>1. CASE Len(s) = 0
      <4>1. k = first
        BY Zenon, <1>1, <3>1
      <4> HIDE DEF k
      <4> QED BY Zenon, <1>3, <3>1, <4>1 DEF Top
    <3>2. CASE Len(s) # 0
      <4> HIDE DEF k
      <4> QED BY Zenon, <1>3, <2>4, <3>2 DEF Below
    <3> QED BY Zenon, <3>1, <3>2
  <2>6. \A i \in 1 .. Len(s) : k \in ord[s[i]]
    <3> SUFFICES ASSUME NEW i \in 1 .. Len(s) PROVE k \in ord[s[i]]
      OBVIOUS
    <3>1. s[i] \in S /\ (i = Len(s) \/ i < Len(s)) /\ Len(s) # 0
      BY <1>1
    <3>2. i < Len(s) => s[Len(s)] \in ord[s[i]]
      BY Zenon, <1>1, <2>3, <3>1 DEF Along
    <3> HIDE DEF k
    <3> QED BY Zenon, <2>3, <2>5, <3>1, <3>2 DEF Ordered
  <2> HIDE DEF k
  <2>7. /\ t \in Seq(S) /\ Len(t) = n + 1 /\ t[n + 1] = k
        /\ \A i \in 1 .. n : t[i] = s[i]
    BY <1>1, <2>2, <2>5
  <2> HIDE DEF t
  <2>8. \A i, j \in 1 .. n + 1 : i < j => t[j] \in ord[t[i]]
    <3> SUFFICES ASSUME NEW i \in 1 .. n + 1, NEW j \in 1 .. n + 1, i < j
                 PROVE  t[j] \in ord[t[i]]
      OBVIOUS
    <3>1. i \in 1 .. n /\ (j = n + 1 \/ j \in 1 .. n)
      OBVIOUS
    <3>2. CASE j = n + 1
      BY Zenon, <2>2, <2>6, <2>7, <3>1, <3>2
    <3>3. CASE j \in 1 .. n
      BY Zenon, <2>2, <2>7, <3>1, <3>3 DEF Along
    <3> QED BY Zenon, <3>1, <3>2, <3>3
  <2>9. t[1] = first
    <3>1. CASE n = 0
      BY <1>1, <2>2, <2>7, <3>1 DEF k
    <3>2. CASE n # 0
      <4>1. 1 \in 1 .. n
        BY <3>2
      <4> QED BY Zenon, <2>2, <2>7, <3>2, <4>1 DEF Along
    <3> QED BY Zenon, <3>1, <3>2
  <2>10. \A i \in 1 .. n + 1 : i < n + 1 => next[t[i]] = t[i + 1]
    <3> SUFFICES ASSUME NEW i \in 1 .. n PROVE next[t[i]] = t[i + 1]
      OBVIOUS
    <3>1. CASE i = n
      BY <1>1, <2>2, <2>7, <3>1 DEF k
    <3>2. CASE i # n
      <4>1. i + 1 \in 1 .. n /\ i < n
        BY <3>2
      <4> QED BY Zenon, <2>2, <2>7, <4>1 DEF Along
    <3> QED BY Zenon, <3>1, <3>2
  <2>11. ASSUME NEW z \in S
         PROVE  \/ \E i \in 1 .. n + 1 : t[i] = z
                \/ \A i \in 1 .. n + 1 : z \in ord[t[i]]
    <3>1. n + 1 \in 1 .. n + 1 /\ 1 .. n \subseteq 1 .. n + 1
      OBVIOUS
    <3>2. CASE \E i \in 1 .. n : s[i] = z
      BY Zenon, <2>7, <3>1, <3>2
    <3>3. CASE \A i \in 1 .. n : z \in ord[s[i]]
      <4>1. z = k \/ z \in ord[k]
        BY Zenon, <2>2, <2>3, <2>5, <3>3
      <4>2. \A i \in 1 .. n + 1 : i = n + 1 \/ i \in 1 .. n
        OBVIOUS
      <4> QED BY Zenon, <2>7, <3>1, <3>3, <4>1, <4>2
    <3> QED BY Zenon, <2>2, <3>2, <3>3 DEF Along
  <2>12. Len(t) <= n + 1 /\ ~(Len(t) < n + 1)
    BY <2>7
  <2> QED BY ZenonT(60), <2>1, <2>7, <2>8, <2>9, <2>10, <2>11, <2>12 DEF Along
<1> QED BY Zenon, <1>2, <1>3

\* A walk from the newest block of a list meets all of it, in order.
LEMMA WalkLists ==
    ASSUME NEW S \in SUBSET Block, NEW ord, Ordered(S, ord),
           NEW first, Top(S, ord, first),
           NEW next, \A x \in S : Below(S, ord, x, next[x])
    PROVE  Lists(S, ord, first, next, Walk(first, next))
<1>1. PICK w : /\ Walk(first, next) = w[NumBlocks]
               /\ w = [n \in 0 .. NumBlocks |->
                         IF n = 0 THEN <<>> ELSE Onward(first, next, w[n - 1])]
  BY ZenonT(60), WalkSteps
<1> DEFINE G == {n \in 0 .. NumBlocks : Along(S, ord, first, next, n, w[n])}
           N == NumBlocks
           s == w[N]
<1>2. 0 \in G
  <2>1. w[0] = <<>>
    BY <1>1, NumBlocksType
  <2>2. Along(S, ord, first, next, 0, <<>>)
    BY DEF Along
  <2> QED BY <2>1, <2>2, NumBlocksType
<1>3. ASSUME NEW n \in 0 .. NumBlocks, n \in G, n < NumBlocks
      PROVE  n + 1 \in G
  <2>1. n \in Nat /\ n + 1 \in 0 .. NumBlocks
    BY <1>3, NumBlocksType
  <2>2. w[n + 1] = Onward(first, next, w[n])
    BY <1>1, <2>1
  <2>3. Along(S, ord, first, next, n + 1, w[n + 1])
    BY Zenon, <1>3, <2>1, <2>2, OneRound
  <2> QED BY Zenon, <2>1, <2>3
<1>4. Along(S, ord, first, next, N, s)
  <2>1. \A n \in 0 .. NumBlocks : n \in G
    <3> HIDE DEF G
    <3> QED BY Zenon, <1>2, <1>3, NumBlocksType, UpTo
  <2>2. NumBlocks \in 0 .. NumBlocks
    BY NumBlocksType
  <2> QED BY Zenon, <2>1, <2>2
<1> HIDE DEF s, G
<1>5. /\ s \in Seq(S) /\ Len(s) \in Nat /\ Len(s) <= N
      /\ DOMAIN s = 1 .. Len(s) /\ \A i \in 1 .. Len(s) : s[i] \in S
  BY <1>4, NumBlocksType DEF Along
<1>6. \A i, j \in 1 .. Len(s) : s[i] = s[j] => i = j
  <2> SUFFICES ASSUME NEW i \in 1 .. Len(s), NEW j \in 1 .. Len(s), i < j, s[i] = s[j]
               PROVE  FALSE
    BY <1>5
  <2> QED BY Zenon, <1>4, <1>5 DEF Along, Ordered
<1>7. Range(s) = {s[i] : i \in 1 .. Len(s)}
  BY Zenon, <1>5 DEF Range
<1>8. Range(s) = S /\ (Len(s) = 0 <=> first = Nil) /\ (Len(s) # 0 => next[s[Len(s)]] = Nil)
  <2>0. Len(s) # 0 => Len(s) \in 1 .. Len(s) /\ 1 \in 1 .. Len(s)
    BY <1>5
  <2>1. Len(s) # 0 => first \in S /\ first # Nil
    BY ZenonT(60), <1>4, <1>5, <2>0, NilIsNoBlock DEF Along
  <2>2. CASE Len(s) < N
    <3>1. CASE Len(s) = 0
      <4>1. first = Nil
        BY Zenon, <1>4, <2>2, <3>1 DEF Along
      <4>2. S = {}
        BY Zenon, <4>1 DEF Top
      <4> QED BY Zenon, <1>5, <1>7, <3>1, <4>1, <4>2
    <3>2. CASE Len(s) # 0
      <4>1. next[s[Len(s)]] = Nil /\ s[Len(s)] \in S
        BY Zenon, <1>4, <1>5, <2>0, <2>2, <3>2 DEF Along
      <4>2. \A z \in S : z \notin ord[s[Len(s)]]
        BY Zenon, <4>1 DEF Below
      <4>3. \A z \in S : \E i \in 1 .. Len(s) : s[i] = z
        BY Zenon, <1>4, <2>0, <3>2, <4>2 DEF Along
      <4> QED BY ZenonT(60), <1>5, <1>7, <2>1, <3>2, <4>1, <4>3
    <3> QED BY Zenon, <3>1, <3>2
  <2>3. CASE Len(s) = N
    <3>1. s \in [1 .. N -> 1 .. N]
      <4>1. s \in [1 .. N -> Block]
        BY <1>5, <2>3
      <4> QED BY Zenon, <4>1 DEF Block
    <3>2. OneToOne(N, s)
      BY Zenon, <1>6, <2>3 DEF OneToOne
    <3>3. Onto(N, s)
      BY Zenon, <3>1, <3>2, NumBlocksType, Pigeonhole
    <3>4. \A z \in S : \E i \in 1 .. Len(s) : s[i] = z
      BY Zenon, <2>3, <3>3 DEF Onto, Block
    <3>5. Len(s) # 0 /\ s[Len(s)] \in S
      BY Zenon, <1>5, <2>0, <2>3, NumBlocksType
    <3>6. ASSUME next[s[Len(s)]] # Nil PROVE FALSE
      <4>1. Below(S, ord, s[Len(s)], next[s[Len(s)]])
        BY Zenon, <3>5
      <4>2. PICK i \in 1 .. Len(s) : s[i] \in ord[s[Len(s)]]
        BY ZenonT(60), <3>4, <3>6, <4>1 DEF Below
      <4>3. \A l \in Nat : \A j \in 1 .. l : j = l \/ j < l
        OBVIOUS
      <4>4. i < Len(s) => s[Len(s)] \in ord[s[i]]
        BY Zenon, <1>4, <2>0, <3>5 DEF Along
      <4> QED BY Zenon, <1>5, <3>5, <4>2, <4>3, <4>4 DEF Ordered
    <3> QED BY ZenonT(60), <1>5, <1>7, <2>1, <3>4, <3>5, <3>6
  <2>4. \A l, m \in Nat : l <= m => l < m \/ l = m
    OBVIOUS
  <2> QED BY Zenon, <1>5, <2>2, <2>3, <2>4, NumBlocksType
<1> QED BY Zenon, <1>1, <1>4, <1>5, <1>6, <1>8 DEF Along, Lists, s

-----------------------------------------------------------------------------
(* The lists of a cache. *)

BinSet(K, U, b) == {x \in U : K.blocks[x].bin_no = b}

\* The blocks S of bin b are linked.
BinLinked(K, S, ord, b) ==
    /\ Top(S, ord, K.bins[b].active)
    /\ \A x \in S : /\ Below(S, ord, x, K.blocks[x].bin_older)
                    /\ Above(S, ord, x, K.blocks[x].bin_newer)

\* The blocks U by age.
AgeLinked(K, U, ord) ==
    /\ Ordered(U, ord)
    /\ Top(U, ord, K.newest) /\ Bottom(U, ord, K.oldest)
    /\ \A x \in U : /\ Below(U, ord, x, K.blocks[x].older)
                    /\ Above(U, ord, x, K.blocks[x].newer)

\* The free blocks F.
FreeLinked(K, F, ord) ==
    /\ Ordered(F, ord)
    /\ Top(F, ord, K.m_blocks)
    /\ \A x \in F : Below(F, ord, x, K.blocks[x].older)

\* The blocks U are in use and F are free.
Linked(K, U, F, ord) ==
    /\ U \in SUBSET Block /\ F \in SUBSET Block /\ ord \in [Block -> SUBSET Block]
    /\ U \cap F = {} /\ U \cup F = Block \ Untouched(K)
    /\ AgeLinked(K, U, ord)
    /\ FreeLinked(K, F, ord)
    /\ \A b \in Bins : BinLinked(K, BinSet(K, U, b), ord, b)

\* The cache D is K once block k has left its lists for the free blocks.
Drops(K, D, k) ==
    LET B == K.blocks
    IN  /\ K.newest = k => D.newest = B[k].older
        /\ K.newest # k => D.newest = K.newest
        /\ K.oldest = k => D.oldest = B[k].newer
        /\ K.oldest # k => D.oldest = K.oldest
        /\ D.m_blocks = k /\ D.uninit_top = K.uninit_top
        /\ D.blocks[k].older = K.m_blocks
        /\ \A x \in Block \ {k} :
              /\ D.blocks[x].bin_no = B[x].bin_no
              /\ x = B[k].newer => D.blocks[x].older = B[k].older
              /\ x # B[k].newer => D.blocks[x].older = B[x].older
              /\ x = B[k].older => D.blocks[x].newer = B[k].newer
              /\ x # B[k].older => D.blocks[x].newer = B[x].newer
              /\ x = B[k].bin_newer => D.blocks[x].bin_older = B[k].bin_older
              /\ x # B[k].bin_newer => D.blocks[x].bin_older = B[x].bin_older
              /\ x = B[k].bin_older => D.blocks[x].bin_newer = B[k].bin_newer
              /\ x # B[k].bin_older => D.blocks[x].bin_newer = B[x].bin_newer
        /\ \A b \in Bins :
              /\ K.bins[b].active = k => D.bins[b].active = B[k].bin_older
              /\ K.bins[b].active # k => D.bins[b].active = K.bins[b].active

LEMMA DropAge ==
    ASSUME NEW K, NEW D, NEW k, Drops(K, D, k), NEW U \in SUBSET Block, k \in U,
           NEW ord, AgeLinked(K, U, ord), NEW new, SameOn(U \ {k}, ord, new)
    PROVE  AgeLinked(D, U \ {k}, new)
<1> DEFINE B == K.blocks
<1>1. Nil \notin U
  BY Zenon, NilIsNoBlock
<1>2. Below(U, ord, k, B[k].older) /\ Above(U, ord, k, B[k].newer)
  BY Zenon DEF AgeLinked
<1>0. Ordered(U, ord) /\ Top(U, ord, K.newest) /\ Bottom(U, ord, K.oldest)
  BY Zenon DEF AgeLinked
<1>3. Ordered(U \ {k}, new)
  BY Zenon, <1>0, OrderedWithout
<1>4. Top(U \ {k}, new, D.newest)
  <2>1. /\ K.newest = k => D.newest = B[k].older
        /\ K.newest # k => D.newest = K.newest
    BY Zenon DEF Drops
  <2> QED BY SMT, <1>0, <1>1, <1>2, <2>1, TopWithout
<1>5. Bottom(U \ {k}, new, D.oldest)
  <2>1. /\ K.oldest = k => D.oldest = B[k].newer
        /\ K.oldest # k => D.oldest = K.oldest
    BY Zenon DEF Drops
  <2> QED BY SMT, <1>0, <1>1, <1>2, <2>1, BottomWithout
<1>6. ASSUME NEW x \in U \ {k}
      PROVE  Below(U \ {k}, new, x, D.blocks[x].older)
  <2>1. Below(U, ord, x, B[x].older)
    BY Zenon DEF AgeLinked
  <2>2. x = B[k].newer <=> B[x].older = k
    BY SMT, <1>0, <1>1, <1>2, <2>1, Neighbours
  <2>3. /\ B[x].older = k => D.blocks[x].older = B[k].older
        /\ B[x].older # k => D.blocks[x].older = B[x].older
    BY Zenon, <2>2 DEF Drops
  <2> QED BY SMT, <1>0, <1>1, <1>2, <2>1, <2>3, BelowWithout
<1>7. ASSUME NEW x \in U \ {k}
      PROVE  Above(U \ {k}, new, x, D.blocks[x].newer)
  <2>1. Above(U, ord, x, B[x].newer)
    BY Zenon DEF AgeLinked
  <2>2. k = B[x].newer <=> B[k].older = x
    BY SMT, <1>0, <1>1, <1>2, <2>1, Neighbours
  <2>3. /\ B[x].newer = k => D.blocks[x].newer = B[k].newer
        /\ B[x].newer # k => D.blocks[x].newer = B[x].newer
    BY ZenonT(60), <2>2 DEF Drops
  <2> QED BY SMT, <1>0, <1>1, <1>2, <2>1, <2>3, AboveWithout
<1> QED BY Zenon, <1>3, <1>4, <1>5, <1>6, <1>7 DEF AgeLinked

\* The list of the bin of the dropped block.
LEMMA DropBin ==
    ASSUME NEW K, NEW D, NEW k, Drops(K, D, k), NEW b \in Bins,
           NEW S \in SUBSET Block, k \in S,
           NEW ord, Ordered(S, ord), BinLinked(K, S, ord, b),
           NEW new, SameOn(S \ {k}, ord, new)
    PROVE  BinLinked(D, S \ {k}, new, b)
<1> DEFINE B == K.blocks
<1>1. Nil \notin S
  BY Zenon, NilIsNoBlock
<1>2. Below(S, ord, k, B[k].bin_older) /\ Above(S, ord, k, B[k].bin_newer)
  BY Zenon DEF BinLinked
<1>3. Top(S \ {k}, new, D.bins[b].active)
  <2>1. Top(S, ord, K.bins[b].active)
    BY Zenon DEF BinLinked
  <2>2. /\ K.bins[b].active = k => D.bins[b].active = B[k].bin_older
        /\ K.bins[b].active # k => D.bins[b].active = K.bins[b].active
    BY Zenon DEF Drops
  <2> QED BY SMT, <1>1, <1>2, <2>1, <2>2, TopWithout
<1>4. ASSUME NEW x \in S \ {k}
      PROVE  Below(S \ {k}, new, x, D.blocks[x].bin_older)
  <2>1. Below(S, ord, x, B[x].bin_older)
    BY Zenon DEF BinLinked
  <2>2. x = B[k].bin_newer <=> B[x].bin_older = k
    BY SMT, <1>1, <1>2, <2>1, Neighbours
  <2>3. /\ B[x].bin_older = k => D.blocks[x].bin_older = B[k].bin_older
        /\ B[x].bin_older # k => D.blocks[x].bin_older = B[x].bin_older
    BY ZenonT(60), <2>2 DEF Drops
  <2> QED BY SMT, <1>1, <1>2, <2>1, <2>3, BelowWithout
<1>5. ASSUME NEW x \in S \ {k}
      PROVE  Above(S \ {k}, new, x, D.blocks[x].bin_newer)
  <2>1. Above(S, ord, x, B[x].bin_newer)
    BY Zenon DEF BinLinked
  <2>2. k = B[x].bin_newer <=> B[k].bin_older = x
    BY SMT, <1>1, <1>2, <2>1, Neighbours
  <2>3. /\ B[x].bin_newer = k => D.blocks[x].bin_newer = B[k].bin_newer
        /\ B[x].bin_newer # k => D.blocks[x].bin_newer = B[x].bin_newer
    BY ZenonT(60), <2>2 DEF Drops
  <2> QED BY SMT, <1>1, <1>2, <2>1, <2>3, AboveWithout
<1> QED BY Zenon, <1>3, <1>4, <1>5 DEF BinLinked

LEMMA DropLinked ==
    ASSUME NEW K, NEW D, NEW k, Drops(K, D, k), NEW U, NEW F, NEW ord,
           Linked(K, U, F, ord), k \in U, K.blocks[k].bin_no \in Bins
    PROVE  Linked(D, U \ {k}, F \cup {k}, Put(ord, k, F))
<1> DEFINE B == K.blocks
           new == Put(ord, k, F)
<1>0. /\ U \in SUBSET Block /\ F \in SUBSET Block /\ ord \in [Block -> SUBSET Block]
      /\ k \in Block /\ k \notin F /\ U \cap F = {} /\ U \cup F = Block \ Untouched(K)
      /\ Nil \notin U /\ Nil \notin F /\ k # Nil
  BY Zenon, NilIsNoBlock DEF Linked
<1>1. new \in [Block -> SUBSET Block] /\ OnTop(F, ord, k, new) /\ SameOn(U \ {k}, ord, new)
  BY Zenon, <1>0, PutOrder
<1> HIDE DEF new
<1>2. AgeLinked(D, U \ {k}, new)
  BY Zenon, <1>0, <1>1, DropAge DEF Linked
<1>3. FreeLinked(D, F \cup {k}, new)
  <2>1. Ordered(F, ord) /\ Top(F, ord, K.m_blocks)
    BY Zenon DEF Linked, FreeLinked
  <2>2. Ordered(F \cup {k}, new) /\ Top(F \cup {k}, new, k)
    BY Zenon, <1>0, <1>1, <2>1, OrderedWith
  <2>3. /\ Below(F \cup {k}, new, k, K.m_blocks)
        /\ \A x \in F : \A y : Below(F, ord, x, y) => Below(F \cup {k}, new, x, y)
    BY Zenon, <1>0, <1>1, <2>1, BelowWith
  <2>4. D.m_blocks = k /\ D.blocks[k].older = K.m_blocks
    BY Zenon DEF Drops
  <2>5. ASSUME NEW x \in F
        PROVE  Below(F \cup {k}, new, x, D.blocks[x].older)
    <3>1. Below(F, ord, x, B[x].older)
      BY Zenon DEF Linked, FreeLinked
    <3>2. Above(U, ord, k, B[k].newer)
      BY Zenon DEF Linked, AgeLinked
    <3>3. x # B[k].newer /\ x \in Block \ {k}
      BY Zenon, <1>0, <3>2 DEF Above
    <3>4. D.blocks[x].older = B[x].older
      BY Zenon, <3>3 DEF Drops
    <3> QED BY Zenon, <2>3, <3>1, <3>4
  <2>6. \A x \in F \cup {k} : Below(F \cup {k}, new, x, D.blocks[x].older)
    BY Zenon, <2>3, <2>4, <2>5
  <2> QED BY Zenon, <2>2, <2>4, <2>6 DEF FreeLinked
<1>4. ASSUME NEW b \in Bins
      PROVE  BinLinked(D, BinSet(D, U \ {k}, b), new, b)
  <2> DEFINE S == BinSet(K, U, b)
             Q == BinSet(K, U, B[k].bin_no)
  <2>1. \A x \in U \ {k} : D.blocks[x].bin_no = B[x].bin_no
    BY Zenon, <1>0 DEF Drops
  <2>2. S \in SUBSET U /\ S \in SUBSET Block /\ Nil \notin S
    BY Zenon, <1>0 DEF BinSet
  <2>3. BinLinked(K, S, ord, b) /\ Ordered(S, ord)
    BY Zenon, <2>2 DEF Linked, AgeLinked, Ordered
  <2>4. SameOn(S \ {k}, ord, new)
    BY Zenon, <1>1, <2>2 DEF SameOn
  <2>5. CASE B[k].bin_no = b
    <3>1. BinSet(D, U \ {k}, b) = S \ {k} /\ k \in S
      BY Zenon, <2>1, <2>5 DEF BinSet
    <3> HIDE DEF S
    <3> QED BY SMT, <2>2, <2>3, <2>4, <3>1, DropBin
  <2>6. CASE B[k].bin_no # b
    <3>1. BinSet(D, U \ {k}, b) = S /\ k \notin S
      BY Zenon, <2>1, <2>6 DEF BinSet
    <3>2. SameOn(S, ord, new)
      BY Zenon, <2>4, <3>1 DEF SameOn
    <3>3. k \in Q /\ BinLinked(K, Q, ord, B[k].bin_no) /\ Q \cap S = {}
      BY Zenon, <2>6 DEF BinSet, Linked
    <3>4. /\ Below(Q, ord, k, B[k].bin_older) /\ Above(Q, ord, k, B[k].bin_newer)
      BY Zenon, <3>3 DEF BinLinked
    <3>5. B[k].bin_older \notin S /\ B[k].bin_newer \notin S
      BY Zenon, <2>2, <3>3, <3>4 DEF Below, Above
    <3>6. /\ Top(S, ord, K.bins[b].active)
          /\ \A x \in S : Below(S, ord, x, B[x].bin_older) /\ Above(S, ord, x, B[x].bin_newer)
      BY Zenon, <2>3 DEF BinLinked
    <3>7. K.bins[b].active # k
      BY Zenon, <1>0, <3>1, <3>6 DEF Top
    <3> HIDE DEF S, Q
    <3>8. \A x \in S : x \in Block \ {k} /\ x # B[k].bin_newer /\ x # B[k].bin_older
      BY Zenon, <2>2, <3>1, <3>5
    <3>9. /\ D.bins[b].active = K.bins[b].active
          /\ \A x \in S : /\ D.blocks[x].bin_older = B[x].bin_older
                          /\ D.blocks[x].bin_newer = B[x].bin_newer
      BY ZenonT(60), <3>7, <3>8 DEF Drops
    <3>10. BinLinked(K, S, new, b)
      BY SMT, <3>2, <3>6, SameLists DEF BinLinked
    <3> QED BY Zenon, <3>1, <3>9, <3>10 DEF BinLinked
  <2> QED BY Zenon, <2>5, <2>6
<1>5. Untouched(D) = Untouched(K)
  BY Zenon DEF Drops, Untouched
<1>6. (U \ {k}) \cap (F \cup {k}) = {} /\ (U \ {k}) \cup (F \cup {k}) = Block \ Untouched(D)
  BY Zenon, <1>0, <1>5
<1>7. U \ {k} \in SUBSET Block /\ F \cup {k} \in SUBSET Block
  BY Zenon, <1>0
<1> QED BY Zenon, <1>1, <1>2, <1>3, <1>4, <1>6, <1>7 DEF Linked, new

\* The cache A is K once the free block k is the newest one and the active one of
\* bin b.
Adds(K, A, k, b) ==
    LET B == K.blocks
    IN  /\ A.newest = k
        /\ K.oldest = Nil => A.oldest = k
        /\ K.oldest # Nil => A.oldest = K.oldest
        /\ K.m_blocks # Nil => /\ k = K.m_blocks
                               /\ A.m_blocks = B[k].older
                               /\ Untouched(A) = Untouched(K)
        /\ K.m_blocks = Nil => /\ k \in Untouched(K)
                               /\ A.m_blocks = Nil
                               /\ Untouched(A) = Untouched(K) \ {k}
        /\ A.blocks[k].bin_no = b
        /\ A.blocks[k].older = K.newest
        /\ A.blocks[k].newer = Nil
        /\ A.blocks[k].bin_older = K.bins[b].active
        /\ A.blocks[k].bin_newer = Nil
        /\ \A x \in Block \ {k} :
              /\ A.blocks[x].bin_no = B[x].bin_no
              /\ A.blocks[x].older = B[x].older
              /\ A.blocks[x].bin_older = B[x].bin_older
              /\ x = K.newest => A.blocks[x].newer = k
              /\ x # K.newest => A.blocks[x].newer = B[x].newer
              /\ x = K.bins[b].active => A.blocks[x].bin_newer = k
              /\ x # K.bins[b].active => A.blocks[x].bin_newer = B[x].bin_newer
        /\ A.bins[b].active = k
        /\ \A a \in Bins \ {b} : A.bins[a].active = K.bins[a].active

LEMMA AddLinked ==
    ASSUME NEW K, NEW A, NEW b \in Bins, NEW k \in Block, Adds(K, A, k, b),
           NEW U, NEW F, NEW ord, Linked(K, U, F, ord)
    PROVE  k \notin U /\ Linked(A, U \cup {k}, F \ {k}, Put(ord, k, U))
<1> DEFINE B == K.blocks
           new == Put(ord, k, U)
           V == U \cup {k}
<1>0. /\ U \in SUBSET Block /\ F \in SUBSET Block /\ ord \in [Block -> SUBSET Block]
      /\ U \cap F = {} /\ U \cup F = Block \ Untouched(K)
      /\ Nil \notin U /\ Nil \notin F /\ k # Nil
  BY Zenon, NilIsNoBlock DEF Linked
<1>1. Ordered(F, ord) /\ Top(F, ord, K.m_blocks)
  BY Zenon DEF Linked, FreeLinked
<1>2. /\ K.m_blocks # Nil => k \in F
      /\ K.m_blocks = Nil => F = {}
      /\ k \notin U
  BY Zenon, <1>0, <1>1 DEF Adds, Top
<1>3. /\ new \in [Block -> SUBSET Block] /\ OnTop(U, ord, k, new)
      /\ SameOn(F \ {k}, ord, new)
  BY Zenon, <1>0, <1>2, PutOrder
<1> HIDE DEF new
<1>4. \A x \in U : x \in Block \ {k}
  BY Zenon, <1>0, <1>2
<1>5. AgeLinked(A, V, new)
  <2>1. Ordered(U, ord) /\ Top(U, ord, K.newest) /\ Bottom(U, ord, K.oldest)
    BY Zenon DEF Linked, AgeLinked
  <2>2. Ordered(V, new) /\ Top(V, new, k)
    BY Zenon, <1>0, <1>2, <1>3, <2>1, OrderedWith
  <2>3. /\ Below(V, new, k, K.newest)
        /\ \A x \in U : \A y : Below(U, ord, x, y) => Below(V, new, x, y)
    BY Zenon, <1>2, <1>3, <2>1, BelowWith
  <2>4. /\ Above(V, new, k, Nil)
        /\ \A x \in U : \A y, v :
              Above(U, ord, x, y) /\ (x = K.newest => v = k) /\ (x # K.newest => v = y)
                 => Above(V, new, x, v)
    BY Zenon, <1>0, <1>2, <1>3, <2>1, AboveWith
  <2>5. /\ K.oldest = Nil => A.oldest = k
        /\ K.oldest # Nil => A.oldest = K.oldest
    BY Zenon DEF Adds
  <2>6. Bottom(V, new, A.oldest)
    BY Zenon, <1>0, <1>2, <1>3, <2>1, <2>5, BottomWith
  <2>7. /\ A.newest = k /\ A.blocks[k].older = K.newest /\ A.blocks[k].newer = Nil
        /\ \A x \in U : /\ A.blocks[x].older = B[x].older
                        /\ x = K.newest => A.blocks[x].newer = k
                        /\ x # K.newest => A.blocks[x].newer = B[x].newer
    BY ZenonT(60), <1>4 DEF Adds
  <2>8. \A x \in U : Below(U, ord, x, B[x].older) /\ Above(U, ord, x, B[x].newer)
    BY Zenon DEF Linked, AgeLinked
  <2>9. \A x \in V : Below(V, new, x, A.blocks[x].older)
    BY ZenonT(60), <2>3, <2>7, <2>8
  <2>10. \A x \in V : Above(V, new, x, A.blocks[x].newer)
    BY Zenon, <2>4, <2>7, <2>8
  <2> QED BY Zenon, <2>2, <2>6, <2>7, <2>9, <2>10 DEF AgeLinked
<1>6. FreeLinked(A, F \ {k}, new)
  <2>1. \A x \in F : Below(F, ord, x, B[x].older)
    BY Zenon DEF Linked, FreeLinked
  <2>2. \A x \in F \ {k} : A.blocks[x].older = B[x].older
    BY Zenon, <1>0 DEF Adds
  <2>3. CASE K.m_blocks # Nil
    <3>1. k \in F /\ k = K.m_blocks /\ A.m_blocks = B[k].older
      BY Zenon, <1>2, <2>3 DEF Adds
    <3>2. Ordered(F \ {k}, new)
      BY Zenon, <1>1, <1>3, <3>1, OrderedWithout
    <3>3. Below(F, ord, k, A.m_blocks) /\ Top(F, ord, k)
      BY Zenon, <1>1, <2>1, <3>1
    <3>4. Top(F \ {k}, new, A.m_blocks)
      BY Zenon, <1>0, <1>1, <1>3, <3>1, <3>3, TopWithout
    <3>5. ASSUME NEW x \in F \ {k}
          PROVE  Below(F \ {k}, new, x, A.blocks[x].older)
      <4>1. B[x].older # k
        BY Zenon, <1>1, <2>1, <3>1, <3>3, <1>0 DEF Ordered, Below, Top
      <4> QED BY ZenonT(60), <1>0, <1>1, <1>3, <2>1, <2>2, <3>1, <3>3, <4>1, BelowWithout
    <3> QED BY Zenon, <3>2, <3>4, <3>5 DEF FreeLinked
  <2>4. CASE K.m_blocks = Nil
    <3>1. F \ {k} = {} /\ A.m_blocks = Nil
      BY Zenon, <1>2, <2>4 DEF Adds
    <3> QED BY Zenon, <3>1 DEF FreeLinked, Ordered, Top
  <2> QED BY Zenon, <2>3, <2>4
<1>7. ASSUME NEW a \in Bins
      PROVE  BinLinked(A, BinSet(A, V, a), new, a)
  <2> DEFINE S == BinSet(K, U, a)
  <2>1. \A x \in U : A.blocks[x].bin_no = B[x].bin_no
    BY ZenonT(60), <1>4 DEF Adds
  <2>2. A.blocks[k].bin_no = b
    BY Zenon DEF Adds
  <2>3. S \in SUBSET U /\ Nil \notin S /\ k \notin S
    BY Zenon, <1>0, <1>2 DEF BinSet
  <2>4. BinLinked(K, S, ord, a) /\ Ordered(S, ord)
    BY Zenon, <2>3 DEF Linked, AgeLinked, Ordered
  <2>5. /\ Top(S, ord, K.bins[a].active)
        /\ \A x \in S : Below(S, ord, x, B[x].bin_older) /\ Above(S, ord, x, B[x].bin_newer)
    BY Zenon, <2>4 DEF BinLinked
  <2>6. OnTop(S, ord, k, new) /\ SameOn(S, ord, new)
    BY Zenon, <1>3, <2>3 DEF OnTop, SameOn
  <2>7. CASE a = b
    <3> DEFINE T == S \cup {k}
    <3>1. BinSet(A, V, a) = T
      BY Zenon, <1>2, <2>1, <2>2, <2>7 DEF BinSet
    <3> HIDE DEF S
    <3>2. Top(T, new, k)
      BY Zenon, <1>0, <2>3, <2>4, <2>6, OrderedWith
    <3>3. /\ Below(T, new, k, K.bins[a].active)
          /\ \A x \in S : \A y : Below(S, ord, x, y) => Below(T, new, x, y)
      BY Zenon, <2>3, <2>5, <2>6, BelowWith
    <3>4. /\ Above(T, new, k, Nil)
          /\ \A x \in S : \A y, v :
                /\ Above(S, ord, x, y)
                /\ x = K.bins[a].active => v = k
                /\ x # K.bins[a].active => v = y
                => Above(T, new, x, v)
      BY Zenon, <1>0, <2>3, <2>4, <2>5, <2>6, AboveWith
    <3>5. /\ A.bins[a].active = k
          /\ A.blocks[k].bin_older = K.bins[a].active /\ A.blocks[k].bin_newer = Nil
          /\ \A x \in S : /\ A.blocks[x].bin_older = B[x].bin_older
                          /\ x = K.bins[a].active => A.blocks[x].bin_newer = k
                          /\ x # K.bins[a].active => A.blocks[x].bin_newer = B[x].bin_newer
      BY ZenonT(60), <1>4, <2>3, <2>7 DEF Adds
    <3>6. \A x \in T : Below(T, new, x, A.blocks[x].bin_older)
      BY ZenonT(60), <2>5, <3>3, <3>5
    <3>7. \A x \in T : Above(T, new, x, A.blocks[x].bin_newer)
      BY ZenonT(60), <2>5, <3>4, <3>5
    <3> QED BY ZenonT(60), <3>1, <3>2, <3>5, <3>6, <3>7 DEF BinLinked
  <2>8. CASE a # b
    <3>1. BinSet(A, V, a) = S
      BY Zenon, <1>2, <2>1, <2>2, <2>8 DEF BinSet
    <3>2. K.bins[b].active \notin S
      <4>1. BinLinked(K, BinSet(K, U, b), ord, b)
        BY Zenon DEF Linked
      <4> QED BY Zenon, <2>3, <2>8, <4>1 DEF BinLinked, Top, BinSet
    <3> HIDE DEF S
    <3>3. /\ A.bins[a].active = K.bins[a].active
          /\ \A x \in S : /\ A.blocks[x].bin_older = B[x].bin_older
                          /\ A.blocks[x].bin_newer = B[x].bin_newer
      BY ZenonT(60), <1>4, <2>3, <2>8, <3>2 DEF Adds
    <3>4. BinLinked(K, S, new, a)
      BY SMT, <2>5, <2>6, SameLists DEF BinLinked
    <3> QED BY Zenon, <3>1, <3>3, <3>4 DEF BinLinked
  <2> QED BY Zenon, <2>7, <2>8
<1>8. V \cap (F \ {k}) = {} /\ V \cup (F \ {k}) = Block \ Untouched(A)
  <2>1. CASE K.m_blocks # Nil
    <3>1. k \in F /\ Untouched(A) = Untouched(K)
      BY Zenon, <1>2, <2>1 DEF Adds
    <3> QED BY Zenon, <1>0, <1>2, <3>1
  <2>2. CASE K.m_blocks = Nil
    BY ZenonT(60), <1>0, <1>2, <2>2 DEF Adds
  <2> QED BY Zenon, <2>1, <2>2
<1>9. V \in SUBSET Block /\ F \ {k} \in SUBSET Block
  BY Zenon, <1>0
<1> QED BY Zenon, <1>2, <1>3, <1>5, <1>6, <1>7, <1>8, <1>9 DEF Linked, new

-----------------------------------------------------------------------------
(* What the walks over linked lists see. *)

\* The pointers to newer blocks are those of the walk.
NewerIs(S, ord, s) ==
    \A i \in 1 .. Len(s) : \A n :
       Above(S, ord, s[i], n) => n = (IF i = 1 THEN Nil ELSE s[i - 1])

LEMMA NewerAlong ==
    ASSUME NEW S \in SUBSET Block, NEW ord, Ordered(S, ord),
           NEW first, Top(S, ord, first), NEW next, NEW s, Lists(S, ord, first, next, s),
           \A x \in S : Below(S, ord, x, next[x])
    PROVE  NewerIs(S, ord, s)
<1> SUFFICES ASSUME NEW i \in 1 .. Len(s), NEW n, Above(S, ord, s[i], n)
             PROVE  n = (IF i = 1 THEN Nil ELSE s[i - 1])
  BY Zenon DEF NewerIs
<1>1. s[i] \in S /\ Nil \notin S /\ Len(s) \in Nat
  BY NilIsNoBlock DEF Lists
<1>2. CASE i = 1
  <2>1. s[1] = first
    BY <1>1, <1>2 DEF Lists
  <2>2. first \in S /\ \A z \in S : z = first \/ z \in ord[first]
    BY Zenon, <1>1, <1>2, <2>1 DEF Top
  <2>3. n = Nil
    BY Zenon, <1>1, <1>2, <2>1, <2>2 DEF Ordered, Above
  <2> QED BY Zenon, <1>2, <2>3
<1>3. CASE i # 1
  <2>1. i - 1 \in 1 .. Len(s) /\ i - 1 < Len(s) /\ (i - 1) + 1 = i
    BY <1>1, <1>3
  <2>2. next[s[i - 1]] = s[i] /\ s[i - 1] \in S
    BY <2>1 DEF Lists
  <2>3. Below(S, ord, s[i - 1], s[i])
    BY Zenon, <2>2
  <2>4. s[i - 1] = n
    BY SMT, <1>1, <2>2, <2>3, Neighbours
  <2> QED BY Zenon, <1>3, <2>4
<1> QED BY Zenon, <1>2, <1>3

LEMMA LinkedWalks ==
    ASSUME NEW K, NEW U, NEW F, NEW ord, Linked(K, U, F, ord)
    PROVE  /\ InUse(K) = U
           /\ Lists(U, ord, K.newest, [k \in Block |-> K.blocks[k].older], ByAge(K))
           /\ Lists(F, ord, K.m_blocks, [k \in Block |-> K.blocks[k].older], FreeList(K))
           /\ \A b \in Bins :
                 Lists(BinSet(K, U, b), ord, K.bins[b].active,
                       [k \in Block |-> K.blocks[k].bin_older], BinBlocks(K, b))
<1> DEFINE older == [k \in Block |-> K.blocks[k].older]
           bin_older == [k \in Block |-> K.blocks[k].bin_older]
<1>1. /\ U \in SUBSET Block /\ F \in SUBSET Block
      /\ Ordered(U, ord) /\ Top(U, ord, K.newest)
      /\ Ordered(F, ord) /\ Top(F, ord, K.m_blocks)
  BY Zenon DEF Linked, AgeLinked, FreeLinked
<1>2. \A x \in U : Below(U, ord, x, older[x])
  BY Zenon, <1>1 DEF Linked, AgeLinked
<1>3. \A x \in F : Below(F, ord, x, older[x])
  BY Zenon, <1>1 DEF Linked, FreeLinked
<1>4. ASSUME NEW b \in Bins
      PROVE  Lists(BinSet(K, U, b), ord, K.bins[b].active, bin_older, BinBlocks(K, b))
  <2> DEFINE S == BinSet(K, U, b)
  <2>1. S \in SUBSET U /\ S \in SUBSET Block
    BY Zenon, <1>1 DEF BinSet
  <2>2. BinLinked(K, S, ord, b)
    BY Zenon DEF Linked
  <2>3. Ordered(S, ord) /\ Top(S, ord, K.bins[b].active)
    BY Zenon, <1>1, <2>1, <2>2 DEF Ordered, BinLinked
  <2>4. \A x \in S : Below(S, ord, x, bin_older[x])
    BY Zenon, <2>1, <2>2 DEF BinLinked
  <2> HIDE DEF S, bin_older
  <2>5. Lists(S, ord, K.bins[b].active, bin_older, Walk(K.bins[b].active, bin_older))
    BY Zenon, <2>1, <2>3, <2>4, WalkLists
  <2> QED BY Zenon, <2>5 DEF BinBlocks, S, bin_older
<1> HIDE DEF older
<1>5. Lists(U, ord, K.newest, older, Walk(K.newest, older))
  BY Zenon, <1>1, <1>2, WalkLists
<1>6. Lists(F, ord, K.m_blocks, older, Walk(K.m_blocks, older))
  BY Zenon, <1>1, <1>3, WalkLists
<1>7. ByAge(K) = Walk(K.newest, older) /\ FreeList(K) = Walk(K.m_blocks, older)
  BY Zenon DEF ByAge, FreeList, older
<1>8. InUse(K) = U
  BY Zenon, <1>5, <1>7 DEF InUse, Lists
<1> QED BY Zenon, <1>4, <1>5, <1>6, <1>7, <1>8 DEF older

LEMMA LinkedIntact ==
    ASSUME NEW K, NEW U, NEW F, NEW ord, Linked(K, U, F, ord)
    PROVE  Intact(K)
<1> DEFINE older == [k \in Block |-> K.blocks[k].older]
           bin_older == [k \in Block |-> K.blocks[k].bin_older]
           age == ByAge(K)
           fl == FreeList(K)
<1>1. /\ Lists(U, ord, K.newest, older, age)
      /\ Lists(F, ord, K.m_blocks, older, fl)
      /\ \A b \in Bins : Lists(BinSet(K, U, b), ord, K.bins[b].active, bin_older,
                               BinBlocks(K, b))
  BY Zenon, LinkedWalks
<1>2. /\ U \in SUBSET Block /\ F \in SUBSET Block /\ Nil \notin U
      /\ U \cap F = {} /\ U \cup F = Block \ Untouched(K)
      /\ Ordered(U, ord) /\ Top(U, ord, K.newest) /\ Bottom(U, ord, K.oldest)
  BY Zenon, NilIsNoBlock DEF Linked, AgeLinked
<1>3. \A x \in U : Below(U, ord, x, older[x]) /\ Above(U, ord, x, K.blocks[x].newer)
  BY Zenon, <1>2 DEF Linked, AgeLinked
<1> HIDE DEF age, fl, older
<1>4. /\ NoCycle(age) /\ NoCycle(fl)
      /\ Range(age) = U /\ Range(fl) = F
      /\ DOMAIN age = 1 .. Len(age) /\ age \in Seq(U) /\ Len(age) \in Nat
      /\ \A i \in 1 .. Len(age) : age[i] \in U
  BY <1>1 DEF Lists, NoCycle
<1>5. K.oldest = (IF age = <<>> THEN Nil ELSE age[Len(age)])
  <2>1. CASE age = <<>>
    <3>1. U = {}
      BY <1>4, <2>1 DEF Range
    <3> QED BY Zenon, <1>2, <2>1, <3>1 DEF Bottom
  <2>2. CASE age # <<>>
    <3>1. Len(age) # 0 /\ Len(age) \in 1 .. Len(age)
      BY <1>4, <2>2
    <3>2. age[Len(age)] \in U /\ older[age[Len(age)]] = Nil
      BY Zenon, <1>1, <1>4, <3>1 DEF Lists
    <3>3. \A z \in U : z \notin ord[age[Len(age)]]
      BY Zenon, <1>3, <3>2 DEF Below
    <3>4. K.oldest = age[Len(age)]
      BY Zenon, <3>2, <3>3, <1>2 DEF Bottom
    <3> QED BY Zenon, <2>2, <3>4
  <2> QED BY Zenon, <2>1, <2>2
<1>6. \A i \in DOMAIN age : K.blocks[age[i]].newer = (IF i = 1 THEN Nil ELSE age[i - 1])
  <2>0. \A x \in U : Below(U, ord, x, older[x])
    BY Zenon, <1>3
  <2>1. NewerIs(U, ord, age)
    BY Zenon, <1>1, <1>2, <2>0, NewerAlong
  <2> QED BY Zenon, <1>3, <1>4, <2>1 DEF NewerIs
<1>7. ASSUME NEW b \in Bins
      PROVE  LET bl == BinBlocks(K, b)
             IN  /\ Range(bl) = {k \in Range(age) : K.blocks[k].bin_no = b}
                 /\ \A i, j \in DOMAIN age, m, n \in DOMAIN bl :
                       age[i] = bl[m] /\ age[j] = bl[n] => (i < j <=> m < n)
                 /\ \A i \in DOMAIN bl :
                       K.blocks[bl[i]].bin_newer = (IF i = 1 THEN Nil ELSE bl[i - 1])
  <2> DEFINE bl == BinBlocks(K, b)
             S == BinSet(K, U, b)
  <2>1. Lists(S, ord, K.bins[b].active, bin_older, bl)
    BY Zenon, <1>1
  <2>2. S \in SUBSET U /\ S \in SUBSET Block /\ BinLinked(K, S, ord, b)
    BY Zenon, <1>2 DEF BinSet, Linked
  <2>3. Ordered(S, ord) /\ Top(S, ord, K.bins[b].active)
    BY Zenon, <1>2, <2>2 DEF Ordered, BinLinked
  <2>4. \A x \in S : Below(S, ord, x, bin_older[x]) /\ Above(S, ord, x, K.blocks[x].bin_newer)
    BY Zenon, <2>2 DEF BinLinked
  <2>5. Range(bl) = {k \in Range(age) : K.blocks[k].bin_no = b}
    BY Zenon, <1>4, <2>1 DEF Lists, BinSet
  <2> HIDE DEF bl, S, bin_older
  <2>6. DOMAIN bl = 1 .. Len(bl) /\ Len(bl) \in Nat /\ \A i \in 1 .. Len(bl) : bl[i] \in S
    BY <2>1 DEF Lists
  <2>7. \A i \in DOMAIN bl :
           K.blocks[bl[i]].bin_newer = (IF i = 1 THEN Nil ELSE bl[i - 1])
    <3>0. \A x \in S : Below(S, ord, x, bin_older[x])
      BY Zenon, <2>4
    <3>1. NewerIs(S, ord, bl)
      BY Zenon, <2>1, <2>2, <2>3, <3>0, NewerAlong
    <3> QED BY Zenon, <2>4, <2>6, <3>1 DEF NewerIs
  <2>8. ASSUME NEW i \in DOMAIN age, NEW j \in DOMAIN age, NEW m \in DOMAIN bl,
               NEW n \in DOMAIN bl, age[i] = bl[m], age[j] = bl[n]
        PROVE  i < j <=> m < n
    <3>1. /\ i < j => age[j] \in ord[age[i]]
          /\ j < i => age[i] \in ord[age[j]]
          /\ m < n => bl[n] \in ord[bl[m]]
          /\ n < m => bl[m] \in ord[bl[n]]
      BY ZenonT(60), <1>1, <1>4, <2>1, <2>6 DEF Lists
    <3>2. i \in Int /\ j \in Int /\ m \in Int /\ n \in Int
      BY <1>4, <2>6
    <3>3. i < j \/ j < i \/ i = j
      BY <3>2
    <3>4. m < n \/ n < m \/ m = n
      BY <3>2
    <3>5. age[i] \in U /\ age[j] \in U
      BY Zenon, <1>4
    <3>6. ~(age[i] \in ord[age[j]] /\ age[j] \in ord[age[i]]) /\ age[i] \notin ord[age[i]]
      BY Zenon, <1>2, <3>5 DEF Ordered
    <3>7. i = j => ~(i < j)
      BY <3>2
    <3>8. m = n => ~(m < n)
      BY <3>2
    <3> QED BY Zenon, <2>8, <3>1, <3>3, <3>4, <3>6, <3>7, <3>8
  <2> QED BY Zenon, <2>5, <2>7, <2>8 DEF bl
<1> QED BY Zenon, <1>2, <1>4, <1>5, <1>6, <1>7 DEF Intact, age, fl

-----------------------------------------------------------------------------
(* Sums over the blocks. *)

\* The function that Total computes exists.
LEMMA TotalSteps ==
    ASSUME NEW w
    PROVE  \E f : /\ Total(w) = f[NumBlocks]
                  /\ f = [n \in 0 .. NumBlocks |-> IF n = 0 THEN 0 ELSE f[n - 1] + w[n]]
<1> DEFINE Is(f, N) == f = [n \in 0 .. N |-> IF n = 0 THEN 0 ELSE f[n - 1] + w[n]]
           S == {N \in 0 .. NumBlocks : \E f : Is(f, N)}
           sum[n \in 0 .. NumBlocks] == IF n = 0 THEN 0 ELSE sum[n - 1] + w[n]
<1>1. 0 \in S
  <2> DEFINE f == [n \in 0 .. 0 |-> 0]
  <2>1. Is(f, 0)
    OBVIOUS
  <2> HIDE DEF f, Is
  <2> QED BY <2>1, NumBlocksType
<1>2. ASSUME NEW n \in 0 .. NumBlocks, n \in S, n < NumBlocks
      PROVE  n + 1 \in S
  <2>1. PICK f : Is(f, n)
    BY Zenon, <1>2
  <2> DEFINE v == [m \in 0 .. n + 1 |-> IF m = n + 1 THEN f[n] + w[n + 1] ELSE f[m]]
  <2>2. n \in Nat /\ n + 1 \in 0 .. NumBlocks
    BY <1>2, NumBlocksType
  <2>3. \A m \in 0 .. n + 1 : v[m] = IF m = 0 THEN 0 ELSE v[m - 1] + w[m]
    <3> SUFFICES ASSUME NEW m \in 0 .. n + 1
                 PROVE  v[m] = IF m = 0 THEN 0 ELSE v[m - 1] + w[m]
      OBVIOUS
    <3>1. CASE m = n + 1
      <4>1. v[m - 1] = f[n]
        BY <2>2, <3>1
      <4> QED BY <2>2, <3>1, <4>1
    <3>2. CASE m = 0
      BY <2>1, <2>2, <3>2
    <3>3. CASE m # 0 /\ m # n + 1
      <4>1. m \in 0 .. n /\ m - 1 \in 0 .. n /\ m - 1 \in 0 .. n + 1 /\ m - 1 # n + 1
        BY <2>2, <3>3
      <4>2. v[m] = f[m] /\ v[m - 1] = f[m - 1]
        BY Zenon, <3>3, <4>1
      <4>3. f[m] = f[m - 1] + w[m]
        BY Zenon, <2>1, <3>3, <4>1
      <4> QED BY Zenon, <3>3, <4>2, <4>3
    <3> QED BY Zenon, <3>1, <3>2, <3>3
  <2>4. v = [m \in DOMAIN v |-> v[m]] /\ DOMAIN v = 0 .. n + 1
    BY Zenon 
  <2> HIDE DEF v
  <2>5. Is(v, n + 1)
    BY Zenon, <2>3, <2>4
  <2> HIDE DEF Is
  <2> QED BY <2>2, <2>5
<1>3. NumBlocks \in S
  <2> HIDE DEF S
  <2>1. \A n \in 0 .. NumBlocks : n \in S
    BY <1>1, <1>2, NumBlocksType, UpTo
  <2> QED BY <2>1, NumBlocksType
<1>4. \E f : f = [n \in 0 .. NumBlocks |-> IF n = 0 THEN 0 ELSE f[n - 1] + w[n]]
  BY Zenon, <1>3
<1>5. Total(w) = sum[NumBlocks]
  BY Zenon DEF Total
<1>6. sum = [n \in 0 .. NumBlocks |-> IF n = 0 THEN 0 ELSE sum[n - 1] + w[n]]
  BY Zenon, <1>4
<1> HIDE DEF sum
<1> QED BY Zenon, <1>5, <1>6

\* A sum changes by as much as one of its terms.
LEMMA TotalChange ==
    ASSUME NEW w \in [Block -> Int], NEW v \in [Block -> Int], NEW k \in Block,
           \A x \in Block \ {k} : v[x] = w[x]
    PROVE  Total(w) \in Int /\ Total(v) = Total(w) + (v[k] - w[k])
<1>1. PICK f : /\ Total(w) = f[NumBlocks]
               /\ f = [n \in 0 .. NumBlocks |-> IF n = 0 THEN 0 ELSE f[n - 1] + w[n]]
  BY Zenon, TotalSteps
<1>2. PICK g : /\ Total(v) = g[NumBlocks]
               /\ g = [n \in 0 .. NumBlocks |-> IF n = 0 THEN 0 ELSE g[n - 1] + v[n]]
  BY Zenon, TotalSteps
<1> DEFINE d == v[k] - w[k]
           S == {n \in 0 .. NumBlocks : /\ f[n] \in Int
                                        /\ n < k => g[n] = f[n]
                                        /\ n >= k => g[n] = f[n] + d}
<1>0. k \in Int /\ 0 < k /\ k <= NumBlocks /\ d \in Int
  BY NumBlocksType DEF Block
<1> HIDE DEF d
<1>3. 0 \in S
  BY <1>0, <1>1, <1>2, NumBlocksType
<1>4. ASSUME NEW n \in 0 .. NumBlocks, n \in S, n < NumBlocks
      PROVE  n + 1 \in S
  <2>1. n \in Nat /\ n + 1 \in 0 .. NumBlocks /\ n + 1 \in Block /\ n + 1 # 0
    BY <1>4, NumBlocksType DEF Block
  <2>2. f[n + 1] = f[n] + w[n + 1] /\ g[n + 1] = g[n] + v[n + 1]
    BY <1>1, <1>2, <2>1
  <2>3. f[n] \in Int /\ w[n + 1] \in Int /\ v[n + 1] \in Int /\ f[n + 1] \in Int
    BY <1>4, <2>1, <2>2
  <2>4. CASE n + 1 < k
    <3>1. g[n] = f[n] /\ v[n + 1] = w[n + 1]
      BY <1>0, <1>4, <2>1, <2>4
    <3> QED BY <1>0, <2>1, <2>2, <2>3, <2>4, <3>1
  <2>5. CASE n + 1 = k
    <3>1. g[n] = f[n]
      BY <1>0, <1>4, <2>1, <2>5
    <3>2. d = v[n + 1] - w[n + 1]
      BY Zenon, <2>5 DEF d
    <3>3. v[n + 1] = w[n + 1] + d
      BY <2>3, <3>2
    <3> QED BY <1>0, <2>1, <2>2, <2>3, <2>5, <3>1, <3>3
  <2>6. CASE n + 1 > k
    <3>1. g[n] = f[n] + d /\ v[n + 1] = w[n + 1]
      BY <1>0, <1>4, <2>1, <2>6
    <3> QED BY <1>0, <2>1, <2>2, <2>3, <2>6, <3>1
  <2> QED BY <1>0, <2>1, <2>4, <2>5, <2>6
<1>5. NumBlocks \in S
  <2> HIDE DEF S
  <2>1. \A n \in 0 .. NumBlocks : n \in S
    BY Zenon, <1>3, <1>4, NumBlocksType, UpTo
  <2> QED BY <2>1, NumBlocksType
<1> QED BY ZenonT(60), <1>0, <1>1, <1>2, <1>5 DEF d

LEMMA TotalZero ==
    ASSUME NEW w, \A x \in Block : w[x] = 0
    PROVE  Total(w) = 0
<1>1. PICK f : /\ Total(w) = f[NumBlocks]
               /\ f = [n \in 0 .. NumBlocks |-> IF n = 0 THEN 0 ELSE f[n - 1] + w[n]]
  BY Zenon, TotalSteps
<1> DEFINE S == {n \in 0 .. NumBlocks : f[n] = 0}
<1>2. 0 \in S
  BY <1>1, NumBlocksType
<1>3. ASSUME NEW n \in 0 .. NumBlocks, n \in S, n < NumBlocks
      PROVE  n + 1 \in S
  <2>1. n \in Nat /\ n + 1 \in 0 .. NumBlocks /\ n + 1 \in Block /\ n + 1 # 0
    BY <1>3, NumBlocksType DEF Block
  <2>2. f[n + 1] = f[n] + w[n + 1]
    BY <1>1, <2>1
  <2> QED BY <1>3, <2>1, <2>2
<1>4. NumBlocks \in S
  <2> HIDE DEF S
  <2>1. \A n \in 0 .. NumBlocks : n \in S
    BY Zenon, <1>2, <1>3, NumBlocksType, UpTo
  <2> QED BY <2>1, NumBlocksType
<1> QED BY Zenon, <1>1, <1>4

-----------------------------------------------------------------------------
(* The operations on a cache, field by field. *)

Pointer == 0 .. NumBlocks

BlockRec ==
    [bin_no : Bins, older : Pointer, newer : Pointer, bin_older : Pointer,
     bin_newer : Pointer, cache : [1 .. k_capacity -> Object \cup {NullOffset}]]

HeaderRec == [active : Pointer, size : 0 .. k_capacity]

CacheRec ==
    [blocks : [Block -> BlockRec], m_blocks : Pointer, uninit_top : Pointer,
     total : Int, oldest : Pointer, newest : Pointer, bins : [Bins -> HeaderRec]]

LEMMA BlockType == Nil \in Pointer /\ Block \subseteq Pointer
BY NumBlocksType DEF Nil, Pointer, Block

LEMMA Fields ==
    ASSUME NEW r \in BlockRec
    PROVE  /\ r.bin_no \in Bins
           /\ r.older \in Pointer /\ r.newer \in Pointer
           /\ r.bin_older \in Pointer /\ r.bin_newer \in Pointer
           /\ r.cache \in [1 .. k_capacity -> Object \cup {NullOffset}]
BY Zenon DEF BlockRec

LEMMA CacheFields ==
    ASSUME NEW K \in CacheRec
    PROVE  /\ K.blocks \in [Block -> BlockRec]
           /\ K.m_blocks \in Pointer /\ K.uninit_top \in Pointer
           /\ K.oldest \in Pointer /\ K.newest \in Pointer
           /\ K.total \in Int /\ K.bins \in [Bins -> HeaderRec]
BY Zenon DEF CacheRec

\* The pointers of a block once another one has left its lists.
Relink(B, k, x, d) ==
    /\ d.bin_no = B[x].bin_no /\ d.cache = B[x].cache
    /\ d.older = IF x = B[k].newer THEN B[k].older ELSE B[x].older
    /\ d.newer = IF x = B[k].older THEN B[k].newer ELSE B[x].newer
    /\ d.bin_older = IF x = B[k].bin_newer THEN B[k].bin_older ELSE B[x].bin_older
    /\ d.bin_newer = IF x = B[k].bin_older THEN B[k].bin_newer ELSE B[x].bin_newer

LEMMA DisconnectFields ==
    ASSUME NEW B \in [Block -> BlockRec], NEW k \in Block
    PROVE  /\ disconnect(B, k) \in [Block -> BlockRec]
           /\ \A x \in Block : Relink(B, k, x, disconnect(B, k)[x])
<1>1. ASSUME NEW x \in Block
      PROVE  disconnect(B, k)[x] \in BlockRec /\ Relink(B, k, x, disconnect(B, k)[x])
  <2>1. PICK r \in BlockRec : r = B[x]
    OBVIOUS
  <2>2. B[k] \in BlockRec
    OBVIOUS
  <2>3. PICK p \in Pointer : p = IF x = B[k].newer THEN B[k].older ELSE r.older
    BY Zenon, <2>2, Fields
  <2>4. PICK q \in Pointer : q = IF x = B[k].older THEN B[k].newer ELSE r.newer
    BY Zenon, <2>2, Fields
  <2>5. PICK s \in Pointer : s = IF x = B[k].bin_newer THEN B[k].bin_older ELSE r.bin_older
    BY Zenon, <2>2, Fields
  <2>6. PICK t \in Pointer : t = IF x = B[k].bin_older THEN B[k].bin_newer ELSE r.bin_newer
    BY Zenon, <2>2, Fields
  <2> DEFINE e == [r EXCEPT !.older = p, !.newer = q, !.bin_older = s, !.bin_newer = t]
  <2>7. disconnect(B, k)[x] = e
    BY ZenonT(60), <2>1, <2>3, <2>4, <2>5, <2>6 DEF disconnect
  <2>8. /\ e \in BlockRec
        /\ e.bin_no = r.bin_no /\ e.cache = r.cache
        /\ e.older = p /\ e.newer = q /\ e.bin_older = s /\ e.bin_newer = t
    BY Zenon DEF BlockRec
  <2> HIDE DEF e
  <2> QED BY Zenon, <2>1, <2>3, <2>4, <2>5, <2>6, <2>7, <2>8 DEF Relink
<1>2. disconnect(B, k) \in [Block -> BlockRec]
  <2>1. disconnect(B, k) = [x \in DOMAIN disconnect(B, k) |-> disconnect(B, k)[x]]
    BY ZenonT(60) DEF disconnect
  <2>2. DOMAIN disconnect(B, k) = Block
    BY Zenon DEF disconnect
  <2> QED BY Zenon, <1>1, <2>1, <2>2
<1> QED BY Zenon, <1>1, <1>2

LEMMA DropBlockFields ==
    ASSUME NEW K \in CacheRec, NEW k \in Block
    PROVE  LET D == DropBlock(K, k)
           IN  /\ D \in CacheRec
               /\ D.total = K.total /\ D.bins = K.bins
               /\ D.uninit_top = K.uninit_top /\ D.m_blocks = k
               /\ D.newest = IF K.newest = k THEN K.blocks[k].older ELSE K.newest
               /\ D.oldest = IF K.oldest = k THEN K.blocks[k].newer ELSE K.oldest
               /\ D.blocks[k].older = K.m_blocks
               /\ \A x \in Block \ {k} : Relink(K.blocks, k, x, D.blocks[x])
<1>1. NoEntries \in [1 .. k_capacity -> Object \cup {NullOffset}]
  BY Zenon DEF NoEntries
<1>2. /\ K.blocks \in [Block -> BlockRec] /\ K.m_blocks \in Pointer
      /\ K.newest \in Pointer /\ K.oldest \in Pointer
      /\ K.blocks[k].older \in Pointer /\ K.blocks[k].newer \in Pointer
  BY Zenon, CacheFields, Fields
<1>3. PICK B \in [Block -> BlockRec] :
            B = disconnect(K.blocks, k) /\ \A x \in Block : Relink(K.blocks, k, x, B[x])
  BY Zenon, <1>2, DisconnectFields
<1>4. PICK p \in Pointer : p = IF K.newest = k THEN K.blocks[k].older ELSE K.newest
  BY Zenon, <1>2
<1>5. PICK q \in Pointer : q = IF K.oldest = k THEN K.blocks[k].newer ELSE K.oldest
  BY Zenon, <1>2
<1>6. PICK r \in BlockRec : r = B[k]
  OBVIOUS
<1>7. PICK m \in Pointer : m = K.m_blocks
  BY Zenon, <1>2
<1>8. PICK U \in CacheRec :
            /\ unregister(K, k) = U
            /\ U.newest = p /\ U.oldest = q /\ U.blocks = K.blocks /\ U.m_blocks = m
            /\ U.uninit_top = K.uninit_top /\ U.total = K.total /\ U.bins = K.bins
  <2> DEFINE V == [K EXCEPT !.newest = p, !.oldest = q]
  <2>1. unregister(K, k) = V
    BY Zenon, <1>4, <1>5 DEF unregister
  <2>2. /\ V \in CacheRec
        /\ V.newest = p /\ V.oldest = q /\ V.blocks = K.blocks /\ V.m_blocks = m
        /\ V.uninit_top = K.uninit_top /\ V.total = K.total /\ V.bins = K.bins
    BY Zenon, <1>7 DEF CacheRec
  <2> QED BY Zenon, <2>1, <2>2
<1>9. PICK V \in CacheRec :
            /\ [U EXCEPT !.blocks = disconnect(U.blocks, k)] = V
            /\ V.newest = p /\ V.oldest = q /\ V.blocks = B /\ V.m_blocks = m
            /\ V.uninit_top = K.uninit_top /\ V.total = K.total /\ V.bins = K.bins
  <2> DEFINE V == [U EXCEPT !.blocks = B]
  <2>1. [U EXCEPT !.blocks = disconnect(U.blocks, k)] = V
    BY Zenon, <1>3, <1>8
  <2>2. /\ V \in CacheRec
        /\ V.newest = U.newest /\ V.oldest = U.oldest /\ V.blocks = B
        /\ V.m_blocks = U.m_blocks
        /\ V.uninit_top = U.uninit_top /\ V.total = U.total /\ V.bins = U.bins
    BY Zenon DEF CacheRec
  <2> HIDE DEF V
  <2> QED BY ZenonT(60), <1>8, <2>1, <2>2
<1> DEFINE f == [r EXCEPT !.older = m]
           e == [f EXCEPT !.cache = NoEntries]
           C == [[B EXCEPT ![k] = f] EXCEPT ![k] = e]
           E == [V EXCEPT !.blocks = C, !.m_blocks = k]
<1>10. DropBlock(K, k) = PushFreeBlock(V, k)
  BY Zenon, <1>8, <1>9 DEF DropBlock
<1>11. PushFreeBlock(V, k) = E
  BY ZenonT(60), <1>6, <1>9 DEF PushFreeBlock, CacheRec
<1>12. e \in BlockRec /\ e.older = m
  BY Zenon, <1>1 DEF BlockRec
<1> HIDE DEF e, f
<1>13. C \in [Block -> BlockRec] /\ C[k] = e /\ \A x \in Block \ {k} : C[x] = B[x]
  BY Zenon, <1>12
<1> HIDE DEF C
<1>14. /\ E \in CacheRec
       /\ E.newest = V.newest /\ E.oldest = V.oldest /\ E.blocks = C /\ E.m_blocks = k
       /\ E.uninit_top = V.uninit_top /\ E.total = V.total /\ E.bins = V.bins
  BY Zenon, <1>13, BlockType DEF CacheRec
<1> HIDE DEF E
<1>15. /\ E.blocks[k].older = K.m_blocks
       /\ \A x \in Block \ {k} : Relink(K.blocks, k, x, E.blocks[x])
  BY Zenon, <1>3, <1>7, <1>12, <1>13, <1>14
<1> QED BY ZenonT(60), <1>4, <1>5, <1>9, <1>10, <1>11, <1>14, <1>15

\* What K holds: object o in entry i of block k.
Holds(K, k, i, o) ==
    /\ k \in InUse(K) /\ i \in 1 .. NumObjects(K, k)
    /\ K.blocks[k].cache[i] = o /\ o \in Object

\* Of block x both caches hold the same.
SameBlock(K, D, x) ==
    /\ D.blocks[x].bin_no = K.blocks[x].bin_no
    /\ D.blocks[x].cache = K.blocks[x].cache
    /\ NumObjects(D, x) = NumObjects(K, x)

\* The active block of bin b, block k, has left the bin of cache K, or bin b has
\* another one.
Leaves(K, T, k, b) ==
    /\ K.bins[b].active = k => /\ T.bins[b].active = K.blocks[k].bin_older
                               /\ T.bins[b].active # Nil => T.bins[b].size = k_capacity
    /\ K.bins[b].active # k => T.bins[b] = K.bins[b]
    /\ \A a \in Bins \ {b} : T.bins[a] = K.bins[a]

\* Both caches have the same lists but for the bins' active blocks.
SameBlocks(K, T) ==
    /\ T.blocks = K.blocks /\ T.m_blocks = K.m_blocks /\ T.uninit_top = K.uninit_top
    /\ T.oldest = K.oldest /\ T.newest = K.newest

LEMMA DropEffect ==
    ASSUME NEW K \in CacheRec, NEW T \in CacheRec, NEW k, NEW U, NEW F, NEW ord,
           Linked(K, U, F, ord), k \in U,
           SameBlocks(K, T), Leaves(K, T, k, K.blocks[k].bin_no)
    PROVE  /\ DropBlock(T, k) \in CacheRec
           /\ DropBlock(T, k).total = T.total /\ DropBlock(T, k).bins = T.bins
           /\ Linked(DropBlock(T, k), U \ {k}, F \cup {k}, Put(ord, k, F))
           /\ \A x \in U \ {k} : SameBlock(K, DropBlock(T, k), x)
<1>1. U \in SUBSET Block /\ k \in Block /\ Nil \notin U
  BY Zenon, NilIsNoBlock DEF Linked
<1>2. PICK D \in CacheRec :
           /\ DropBlock(T, k) = D
           /\ D.total = T.total /\ D.bins = T.bins
           /\ D.uninit_top = T.uninit_top /\ D.m_blocks = k
           /\ D.newest = IF T.newest = k THEN T.blocks[k].older ELSE T.newest
           /\ D.oldest = IF T.oldest = k THEN T.blocks[k].newer ELSE T.oldest
           /\ D.blocks[k].older = T.m_blocks
           /\ \A x \in Block \ {k} : Relink(T.blocks, k, x, D.blocks[x])
  BY ZenonT(60), <1>1, DropBlockFields
<1> DEFINE b == K.blocks[k].bin_no
<1>3. b \in Bins
  BY Zenon, <1>1, CacheFields, Fields
<1>4. \A a \in Bins \ {b} : K.bins[a].active # k
  <2> SUFFICES ASSUME NEW a \in Bins \ {b}, K.bins[a].active = k
               PROVE  FALSE
    BY Zenon 
  <2>1. Top(BinSet(K, U, a), ord, k) /\ k # Nil
    BY Zenon, <1>1 DEF Linked, BinLinked
  <2> QED BY Zenon, <2>1 DEF Top, BinSet
<1>5. Drops(K, D, k)
  <2>1. \A x \in Block \ {k} : Relink(K.blocks, k, x, D.blocks[x])
    BY Zenon, <1>2 DEF SameBlocks
  <2>2. \A a \in Bins : /\ K.bins[a].active = k => D.bins[a].active = K.blocks[k].bin_older
                        /\ K.bins[a].active # k => D.bins[a].active = K.bins[a].active
    BY ZenonT(60), <1>2, <1>4 DEF Leaves
  <2>3. /\ K.newest = k => D.newest = K.blocks[k].older
        /\ K.newest # k => D.newest = K.newest
        /\ K.oldest = k => D.oldest = K.blocks[k].newer
        /\ K.oldest # k => D.oldest = K.oldest
        /\ D.m_blocks = k /\ D.uninit_top = K.uninit_top
        /\ D.blocks[k].older = K.m_blocks
    BY Zenon, <1>2 DEF SameBlocks
  <2>4. \A x \in Block \ {k} :
              /\ D.blocks[x].bin_no = K.blocks[x].bin_no
              /\ x = K.blocks[k].newer => D.blocks[x].older = K.blocks[k].older
              /\ x # K.blocks[k].newer => D.blocks[x].older = K.blocks[x].older
              /\ x = K.blocks[k].older => D.blocks[x].newer = K.blocks[k].newer
              /\ x # K.blocks[k].older => D.blocks[x].newer = K.blocks[x].newer
              /\ x = K.blocks[k].bin_newer => D.blocks[x].bin_older = K.blocks[k].bin_older
              /\ x # K.blocks[k].bin_newer => D.blocks[x].bin_older = K.blocks[x].bin_older
              /\ x = K.blocks[k].bin_older => D.blocks[x].bin_newer = K.blocks[k].bin_newer
              /\ x # K.blocks[k].bin_older => D.blocks[x].bin_newer = K.blocks[x].bin_newer
    BY ZenonT(60), <2>1 DEF Relink
  <2> QED BY Zenon, <2>2, <2>3, <2>4 DEF Drops
<1>6. Linked(D, U \ {k}, F \cup {k}, Put(ord, k, F))
  BY Zenon, <1>3, <1>5, DropLinked
<1>7. ASSUME NEW x \in U \ {k}
      PROVE  SameBlock(K, D, x)
  <2>1. Relink(K.blocks, k, x, D.blocks[x]) /\ x # Nil /\ x # k
    BY Zenon, <1>1, <1>2 DEF SameBlocks
  <2>2. D.blocks[x].bin_no = K.blocks[x].bin_no /\ D.blocks[x].cache = K.blocks[x].cache
    BY Zenon, <2>1 DEF Relink
  <2>3. PICK a \in Bins : a = K.blocks[x].bin_no
    BY ZenonT(60), <1>1, CacheFields, Fields
  <2>4. (IF D.bins[a].active = x THEN D.bins[a].size ELSE k_capacity)
          = (IF K.bins[a].active = x THEN K.bins[a].size ELSE k_capacity)
    <3>1. CASE a = b /\ K.bins[b].active = k
      BY ZenonT(60), <1>2, <2>1, <3>1 DEF Leaves
    <3>2. CASE ~(a = b /\ K.bins[b].active = k)
      BY ZenonT(60), <1>2, <3>2 DEF Leaves
    <3> QED BY Zenon, <3>1, <3>2
  <2> QED BY Zenon, <2>2, <2>3, <2>4 DEF SameBlock, NumObjects
<1> QED BY Zenon, <1>2, <1>6, <1>7

\* The free blocks once the first one is taken.
LEMMA PopFreeBlockFields ==
    ASSUME NEW K \in CacheRec, ~NoFreeBlock(K)
    PROVE  /\ FreeBlock(K) \in Block
           /\ PopFreeBlock(K) \in CacheRec
           /\ PopFreeBlock(K).blocks = K.blocks /\ PopFreeBlock(K).total = K.total
           /\ PopFreeBlock(K).oldest = K.oldest /\ PopFreeBlock(K).newest = K.newest
           /\ PopFreeBlock(K).bins = K.bins
           /\ K.m_blocks # Nil => /\ FreeBlock(K) = K.m_blocks
                                  /\ PopFreeBlock(K).m_blocks = K.blocks[FreeBlock(K)].older
                                  /\ Untouched(PopFreeBlock(K)) = Untouched(K)
           /\ K.m_blocks = Nil => /\ FreeBlock(K) \in Untouched(K)
                                  /\ PopFreeBlock(K).m_blocks = Nil
                                  /\ Untouched(PopFreeBlock(K)) = Untouched(K) \ {FreeBlock(K)}
<1>1. /\ K.blocks \in [Block -> BlockRec]
      /\ K.m_blocks \in Pointer /\ K.uninit_top \in Pointer
  BY Zenon, CacheFields
<1>2. K.m_blocks = Nil => K.uninit_top # Nil
  BY Zenon DEF NoFreeBlock
<1>3. FreeBlock(K) \in Block
  <2>1. \A p \in Pointer : p # Nil => p \in Block
    BY DEF Nil, Pointer, Block
  <2> QED BY Zenon, <1>1, <1>2, <2>1 DEF FreeBlock
<1>4. CASE K.m_blocks # Nil
  <2>1. PICK m \in Pointer : m = K.blocks[K.m_blocks].older
    BY Zenon, <1>1, <1>3, <1>4, Fields DEF FreeBlock
  <2> DEFINE P == [K EXCEPT !.m_blocks = m]
  <2>2. PopFreeBlock(K) = P /\ FreeBlock(K) = K.m_blocks
    BY Zenon, <1>4, <2>1 DEF PopFreeBlock, FreeBlock
  <2>3. /\ P \in CacheRec
        /\ P.blocks = K.blocks /\ P.total = K.total /\ P.uninit_top = K.uninit_top
        /\ P.oldest = K.oldest /\ P.newest = K.newest /\ P.bins = K.bins /\ P.m_blocks = m
    BY Zenon DEF CacheRec
  <2> HIDE DEF P
  <2>4. Untouched(P) = Untouched(K)
    BY Zenon, <2>3 DEF Untouched
  <2> QED BY Zenon, <1>3, <1>4, <2>1, <2>2, <2>3, <2>4
<1>5. CASE K.m_blocks = Nil
  <2>1. PICK t \in Pointer : t = IF K.uninit_top = NumBlocks THEN Nil ELSE K.uninit_top + 1
    <3>1. \A u \in Pointer : (IF u = NumBlocks THEN Nil ELSE u + 1) \in Pointer
      BY NumBlocksType DEF Pointer, Nil
    <3> QED BY Zenon, <1>1, <3>1
  <2> DEFINE P == [K EXCEPT !.uninit_top = t]
  <2>2. PopFreeBlock(K) = P /\ FreeBlock(K) = K.uninit_top
    BY Zenon, <1>5, <2>1 DEF PopFreeBlock, FreeBlock
  <2>3. /\ P \in CacheRec
        /\ P.blocks = K.blocks /\ P.total = K.total /\ P.uninit_top = t
        /\ P.oldest = K.oldest /\ P.newest = K.newest /\ P.bins = K.bins
        /\ P.m_blocks = K.m_blocks
    BY Zenon DEF CacheRec
  <2> HIDE DEF P
  <2>4. K.uninit_top \in Untouched(K) /\ Untouched(P) = Untouched(K) \ {K.uninit_top}
    <3>1. PICK u \in Pointer : u = K.uninit_top
      BY Zenon, <1>1
    <3>2. u # Nil /\ t = IF u = NumBlocks THEN Nil ELSE u + 1
      BY Zenon, <1>2, <1>5, <2>1, <3>1
    <3>3. u \in u .. NumBlocks
      BY <3>2, NumBlocksType DEF Pointer
    <3>4. (IF t = Nil THEN {} ELSE t .. NumBlocks) = u .. NumBlocks \ {u}
      <4>1. CASE u = NumBlocks
        BY <3>2, <4>1, NumBlocksType DEF Nil
      <4>2. CASE u # NumBlocks
        <5>1. t = u + 1 /\ t # Nil /\ u \in Nat
          BY <3>2, <4>2, NumBlocksType DEF Pointer, Nil
        <5>2. u + 1 .. NumBlocks = u .. NumBlocks \ {u}
          BY <5>1, NumBlocksType
        <5> QED BY Zenon, <5>1, <5>2
      <4> QED BY Zenon, <4>1, <4>2
    <3> QED BY Zenon, <2>3, <3>1, <3>2, <3>3, <3>4 DEF Untouched
  <2> QED BY Zenon, <1>3, <1>5, <2>2, <2>3, <2>4
<1> QED BY Zenon, <1>4, <1>5

\* The pointers of a block once block k is linked in front of p and q.
LinkTo(B, k, p, q, x, d) ==
    /\ d.bin_no = B[x].bin_no /\ d.cache = B[x].cache
    /\ d.older = IF x = k THEN p ELSE B[x].older
    /\ d.newer = IF x = p THEN k ELSE B[x].newer
    /\ d.bin_older = IF x = k THEN q ELSE B[x].bin_older
    /\ d.bin_newer = IF x = q THEN k ELSE B[x].bin_newer

LEMMA LinkToOlderFields ==
    ASSUME NEW B \in [Block -> BlockRec], NEW k \in Block, NEW p \in Pointer, NEW q \in Pointer
    PROVE  /\ link_to_older(B, k, p, q) \in [Block -> BlockRec]
           /\ \A x \in Block : LinkTo(B, k, p, q, x, link_to_older(B, k, p, q)[x])
<1> DEFINE N == link_to_older(B, k, p, q)
<1>1. ASSUME NEW x \in Block
      PROVE  N[x] \in BlockRec /\ LinkTo(B, k, p, q, x, N[x])
  <2>1. PICK r \in BlockRec : r = B[x]
    OBVIOUS
  <2>2. k \in Pointer
    BY Zenon, BlockType
  <2>3. PICK s \in Pointer : s = IF x = k THEN p ELSE r.older
    BY Zenon, Fields
  <2>4. PICK t \in Pointer : t = IF x = p THEN k ELSE r.newer
    BY Zenon, <2>2, Fields
  <2>5. PICK u \in Pointer : u = IF x = k THEN q ELSE r.bin_older
    BY Zenon, Fields
  <2>6. PICK v \in Pointer : v = IF x = q THEN k ELSE r.bin_newer
    BY Zenon, <2>2, Fields
  <2> DEFINE e == [r EXCEPT !.older = s, !.newer = t, !.bin_older = u, !.bin_newer = v]
  <2>7. N[x] = e
    BY ZenonT(60), <2>1, <2>3, <2>4, <2>5, <2>6 DEF link_to_older
  <2>8. /\ e \in BlockRec
        /\ e.bin_no = r.bin_no /\ e.cache = r.cache
        /\ e.older = s /\ e.newer = t /\ e.bin_older = u /\ e.bin_newer = v
    BY Zenon DEF BlockRec
  <2> HIDE DEF e
  <2> QED BY Zenon, <2>1, <2>3, <2>4, <2>5, <2>6, <2>7, <2>8 DEF LinkTo
<1>2. N \in [Block -> BlockRec]
  <2>1. N = [x \in DOMAIN N |-> N[x]] /\ DOMAIN N = Block
    BY ZenonT(60) DEF link_to_older
  <2> QED BY Zenon, <1>1, <2>1
<1> QED BY Zenon, <1>1, <1>2

LEMMA AddBlockFields ==
    ASSUME NEW K \in CacheRec, ~NoFreeBlock(K), NEW b \in Bins, NEW n \in 0 .. k_capacity,
           NEW k, k = FreeBlock(K), K.newest # k, K.bins[b].active # k
    PROVE  /\ k \in Block
           /\ AddBlock(K, b, n) \in CacheRec
           /\ AddBlock(K, b, n).total = K.total
           /\ AddBlock(K, b, n).bins[b] = [active |-> k, size |-> n]
           /\ \A a \in Bins \ {b} : AddBlock(K, b, n).bins[a] = K.bins[a]
           /\ \A x \in Block \ {k} : AddBlock(K, b, n).blocks[x].cache = K.blocks[x].cache
           /\ Adds(K, AddBlock(K, b, n), k, b)
<1>1. PICK P \in CacheRec :
           /\ k \in Block
           /\ PopFreeBlock(K) = P
           /\ P.blocks = K.blocks /\ P.total = K.total
           /\ P.oldest = K.oldest /\ P.newest = K.newest /\ P.bins = K.bins
           /\ K.m_blocks # Nil => /\ k = K.m_blocks
                                  /\ P.m_blocks = K.blocks[k].older
                                  /\ Untouched(P) = Untouched(K)
           /\ K.m_blocks = Nil => /\ k \in Untouched(K)
                                  /\ P.m_blocks = Nil
                                  /\ Untouched(P) = Untouched(K) \ {k}
  BY Zenon, PopFreeBlockFields
<1>2. /\ K.blocks \in [Block -> BlockRec] /\ K.bins \in [Bins -> HeaderRec]
      /\ K.newest \in Pointer /\ K.oldest \in Pointer
  BY Zenon, CacheFields
<1>3. PICK q \in Pointer : q = K.bins[b].active
  <2>1. K.bins[b] \in HeaderRec
    BY Zenon, <1>2
  <2> QED BY Zenon, <2>1 DEF HeaderRec
<1>4. PICK p \in Pointer : p = K.newest
  BY Zenon, <1>2
<1>5. PICK r \in BlockRec :
           /\ r = clear(K.blocks[k], b) /\ r.bin_no = b
           /\ r.older = Nil /\ r.newer = Nil /\ r.bin_older = Nil /\ r.bin_newer = Nil
  <2>1. PICK r \in BlockRec : r = K.blocks[k]
    BY Zenon, <1>1, <1>2
  <2> DEFINE e == [r EXCEPT !.bin_no = b, !.older = Nil, !.newer = Nil,
                            !.bin_older = Nil, !.bin_newer = Nil]
  <2>2. e = clear(K.blocks[k], b)
    BY Zenon, <2>1 DEF clear
  <2>3. /\ e \in BlockRec /\ e.bin_no = b
        /\ e.older = Nil /\ e.newer = Nil /\ e.bin_older = Nil /\ e.bin_newer = Nil
    BY Zenon, BlockType DEF BlockRec
  <2> QED BY Zenon, <2>2, <2>3
<1>6. PICK B \in [Block -> BlockRec] :
           /\ B = [P.blocks EXCEPT ![k] = clear(@, b)]
           /\ B[k] = r /\ \A x \in Block \ {k} : B[x] = K.blocks[x]
  <2>1. PICK C \in [Block -> BlockRec] : C = K.blocks
    BY Zenon, <1>2
  <2> DEFINE B == [C EXCEPT ![k] = r]
  <2>2. B = [P.blocks EXCEPT ![k] = clear(@, b)]
    BY Zenon, <1>1, <1>5, <2>1
  <2>3. B \in [Block -> BlockRec] /\ B[k] = r /\ \A x \in Block \ {k} : B[x] = C[x]
    BY Zenon, <1>1
  <2> QED BY ZenonT(60), <2>1, <2>2, <2>3
<1>7. PICK N \in [Block -> BlockRec] :
           N = link_to_older(B, k, p, q) /\ \A x \in Block : LinkTo(B, k, p, q, x, N[x])
  BY Zenon, <1>1, LinkToOlderFields
<1>8. PICK o \in Pointer : o = IF K.oldest = Nil THEN k ELSE K.oldest
  BY Zenon, <1>1, <1>2, BlockType
<1>9. PICK h \in HeaderRec : h = [active |-> k, size |-> n]
  BY Zenon, <1>1, BlockType DEF HeaderRec
<1>10. PICK H \in [Bins -> HeaderRec] :
            /\ H = [P.bins EXCEPT ![b] = h]
            /\ H[b] = h /\ \A a \in Bins \ {b} : H[a] = K.bins[a]
  <2>1. PICK G \in [Bins -> HeaderRec] : G = K.bins
    BY Zenon, <1>2
  <2> DEFINE H == [G EXCEPT ![b] = h]
  <2>2. H \in [Bins -> HeaderRec] /\ H[b] = h /\ \A a \in Bins \ {b} : H[a] = G[a]
    BY Zenon 
  <2> QED BY Zenon, <1>1, <2>1, <2>2
<1> DEFINE L == [P EXCEPT !.blocks = N]
           R == [L EXCEPT !.newest = k, !.oldest = o]
           A == [R EXCEPT !.bins = H]
<1>11. /\ L \in CacheRec
       /\ L.blocks = N /\ L.total = P.total /\ L.m_blocks = P.m_blocks
       /\ L.uninit_top = P.uninit_top /\ L.bins = P.bins
       /\ L.oldest = P.oldest /\ L.newest = P.newest
  BY Zenon DEF CacheRec
<1>12. L = [P EXCEPT !.blocks = link_to_older(B, k, P.newest, P.bins[b].active)]
  BY Zenon, <1>1, <1>3, <1>4, <1>7
<1> HIDE DEF L
<1>13. /\ R \in CacheRec
       /\ R.blocks = L.blocks /\ R.total = L.total /\ R.m_blocks = L.m_blocks
       /\ R.uninit_top = L.uninit_top /\ R.bins = L.bins
       /\ R.oldest = o /\ R.newest = k
  <2>1. L \in CacheRec /\ k \in Pointer
    BY Zenon, <1>1, <1>11, BlockType
  <2> QED BY ZenonT(60), <2>1 DEF CacheRec
<1>14. R = register_new_block(L, k)
  BY ZenonT(60), <1>1, <1>8, <1>11 DEF register_new_block
<1> HIDE DEF R
<1>15. /\ A \in CacheRec
       /\ A.blocks = R.blocks /\ A.total = R.total /\ A.m_blocks = R.m_blocks
       /\ A.uninit_top = R.uninit_top /\ A.bins = H
       /\ A.oldest = R.oldest /\ A.newest = R.newest
  <2>1. R \in CacheRec
    BY Zenon, <1>13
  <2> QED BY Zenon, <2>1 DEF CacheRec
<1>16. A = AddBlock(K, b, n)
  <2>1. AddBlock(K, b, n) = [R EXCEPT !.bins[b] = h]
    BY ZenonT(60), <1>1, <1>6, <1>9, <1>12, <1>14 DEF AddBlock
  <2>2. R.bins = P.bins
    BY Zenon, <1>11, <1>13
  <2> QED BY Zenon, <1>10, <2>1, <2>2
<1> HIDE DEF A
<1>17. /\ A.blocks = N /\ A.total = K.total /\ A.m_blocks = P.m_blocks
       /\ A.uninit_top = P.uninit_top /\ A.bins = H /\ A.oldest = o /\ A.newest = k
  BY ZenonT(60), <1>1, <1>11, <1>13, <1>15
<1>18. ASSUME NEW x \in Block \ {k}
       PROVE  /\ A.blocks[x].bin_no = K.blocks[x].bin_no
              /\ A.blocks[x].cache = K.blocks[x].cache
              /\ A.blocks[x].older = K.blocks[x].older
              /\ A.blocks[x].bin_older = K.blocks[x].bin_older
              /\ x = K.newest => A.blocks[x].newer = k
              /\ x # K.newest => A.blocks[x].newer = K.blocks[x].newer
              /\ x = K.bins[b].active => A.blocks[x].bin_newer = k
              /\ x # K.bins[b].active => A.blocks[x].bin_newer = K.blocks[x].bin_newer
  <2>1. LinkTo(B, k, p, q, x, A.blocks[x]) /\ B[x] = K.blocks[x]
    BY Zenon, <1>6, <1>7, <1>17
  <2> QED BY Zenon, <1>3, <1>4, <2>1 DEF LinkTo
<1>19. /\ A.blocks[k].bin_no = b /\ A.blocks[k].older = K.newest /\ A.blocks[k].newer = Nil
       /\ A.blocks[k].bin_older = K.bins[b].active /\ A.blocks[k].bin_newer = Nil
  <2>1. LinkTo(B, k, p, q, k, A.blocks[k]) /\ B[k] = r /\ k # p /\ k # q
    BY ZenonT(60), <1>1, <1>3, <1>4, <1>6, <1>7, <1>17
  <2> QED BY ZenonT(60), <1>3, <1>4, <1>5, <2>1 DEF LinkTo
<1>20. Untouched(A) = Untouched(P)
  BY Zenon, <1>17 DEF Untouched
<1>21. /\ A.bins[b] = [active |-> k, size |-> n]
       /\ \A a \in Bins \ {b} : A.bins[a] = K.bins[a]
  BY ZenonT(60), <1>9, <1>10, <1>17
<1>22. Adds(K, A, k, b)
  <2>1. /\ A.newest = k
        /\ K.oldest = Nil => A.oldest = k
        /\ K.oldest # Nil => A.oldest = K.oldest
    BY Zenon, <1>8, <1>17
  <2>2. /\ K.m_blocks # Nil => /\ k = K.m_blocks
                               /\ A.m_blocks = K.blocks[k].older
                               /\ Untouched(A) = Untouched(K)
        /\ K.m_blocks = Nil => /\ k \in Untouched(K)
                               /\ A.m_blocks = Nil
                               /\ Untouched(A) = Untouched(K) \ {k}
    BY ZenonT(60), <1>1, <1>17, <1>20
  <2>3. A.bins[b].active = k
    BY <1>21
  <2>4. \A a \in Bins \ {b} : A.bins[a].active = K.bins[a].active
    BY Zenon, <1>21
  <2> QED BY ZenonT(60), <1>18, <1>19, <2>1, <2>2, <2>3, <2>4 DEF Adds
<1>23. k \in Block /\ A \in CacheRec /\ A.total = K.total
  BY Zenon, <1>1, <1>15, <1>17
<1> QED BY ZenonT(60), <1>16, <1>18, <1>21, <1>22, <1>23

\* The cache A is K with the free block k as the active one of bin b with n entries.
Added(K, A, b, n, k, U, F, ord) ==
    /\ k \in Block \ U
    /\ A \in CacheRec
    /\ A.total = K.total
    /\ A.newest = k
    /\ A.bins[b] = [active |-> k, size |-> n]
    /\ \A a \in Bins \ {b} : A.bins[a] = K.bins[a]
    /\ A.blocks[k].bin_no = b
    /\ Linked(A, U \cup {k}, F \ {k}, Put(ord, k, U))
    /\ \A x \in U : SameBlock(K, A, x)

LEMMA AddEffect ==
    ASSUME NEW K \in CacheRec, ~NoFreeBlock(K), NEW b \in Bins, NEW n \in 0 .. k_capacity,
           NEW U, NEW F, NEW ord, Linked(K, U, F, ord),
           K.bins[b].active # Nil => K.bins[b].size = k_capacity
    PROVE  Added(K, AddBlock(K, b, n), b, n, FreeBlock(K), U, F, ord)
<1>0. PICK k : k = FreeBlock(K)
  OBVIOUS
<1>1. /\ U \in SUBSET Block /\ F \in SUBSET Block /\ Nil \notin U /\ Nil \notin F
      /\ U \cap F = {} /\ U \cup F = Block \ Untouched(K)
      /\ Top(U, ord, K.newest) /\ Top(F, ord, K.m_blocks)
      /\ Top(BinSet(K, U, b), ord, K.bins[b].active)
  BY Zenon, NilIsNoBlock DEF Linked, AgeLinked, FreeLinked, BinLinked
<1>2. /\ k \in Block
      /\ K.m_blocks # Nil => k = K.m_blocks
      /\ K.m_blocks = Nil => k \in Untouched(K)
  BY Zenon, <1>0, PopFreeBlockFields
<1>3. k \notin U /\ k # Nil
  <2>1. CASE K.m_blocks # Nil
    BY Zenon, <1>1, <1>2, <2>1 DEF Top
  <2>2. CASE K.m_blocks = Nil
    BY Zenon, <1>1, <1>2, <2>2, NilIsNoBlock
  <2> QED BY Zenon, <2>1, <2>2
<1>4. K.newest # k /\ K.bins[b].active # k
  BY Zenon, <1>1, <1>3 DEF Top, BinSet
<1>5. PICK A \in CacheRec :
           /\ AddBlock(K, b, n) = A
           /\ A.total = K.total
           /\ A.bins[b] = [active |-> k, size |-> n]
           /\ \A a \in Bins \ {b} : A.bins[a] = K.bins[a]
           /\ \A x \in Block \ {k} : A.blocks[x].cache = K.blocks[x].cache
           /\ Adds(K, A, k, b)
  <2>1. /\ AddBlock(K, b, n) \in CacheRec
        /\ AddBlock(K, b, n).total = K.total
        /\ AddBlock(K, b, n).bins[b] = [active |-> k, size |-> n]
        /\ \A a \in Bins \ {b} : AddBlock(K, b, n).bins[a] = K.bins[a]
        /\ \A x \in Block \ {k} : AddBlock(K, b, n).blocks[x].cache = K.blocks[x].cache
        /\ Adds(K, AddBlock(K, b, n), k, b)
    BY SMTT(30), <1>0, <1>4, AddBlockFields
  <2> QED BY ZenonT(60), <2>1
<1>6. Linked(A, U \cup {k}, F \ {k}, Put(ord, k, U))
  BY ZenonT(60), <1>2, <1>5, AddLinked
<1>7. A.newest = k /\ A.blocks[k].bin_no = b
  BY Zenon, <1>5 DEF Adds
<1>8. ASSUME NEW x \in U
      PROVE  SameBlock(K, A, x)
  <2>1. x \in Block \ {k} /\ x # Nil
    BY Zenon, <1>1, <1>3
  <2>2. A.blocks[x].bin_no = K.blocks[x].bin_no /\ A.blocks[x].cache = K.blocks[x].cache
    BY Zenon, <1>5, <2>1 DEF Adds
  <2>3. PICK a \in Bins : a = K.blocks[x].bin_no
    BY Zenon, <2>1, CacheFields, Fields
  <2>4. (IF A.bins[a].active = x THEN A.bins[a].size ELSE k_capacity)
          = (IF K.bins[a].active = x THEN K.bins[a].size ELSE k_capacity)
    <3>1. CASE a = b
      <4>1. A.bins[a].active # x
        <5>1. A.bins[b].active = k
          BY <1>5
        <5> QED BY ZenonT(60), <2>1, <3>1, <5>1
      <4> QED BY Zenon, <2>1, <3>1, <4>1
    <3>2. CASE a # b
      BY Zenon, <1>5, <3>2
    <3> QED BY Zenon, <3>1, <3>2
  <2> QED BY Zenon, <2>2, <2>3, <2>4 DEF SameBlock, NumObjects
<1>9. k \in Block \ U
  BY Zenon, <1>2, <1>3
<1>10. Added(K, A, b, n, k, U, F, ord)
  BY Zenon, <1>5, <1>6, <1>7, <1>8, <1>9 DEF Added
<1> QED BY Zenon, <1>0, <1>5, <1>10

-----------------------------------------------------------------------------
(* Caches that are in order. *)

Sum(K) == Total([k \in Block |-> Bytes(K, k)])

\* An empty bin has no objects, the lists are linked, and the total is that of the
\* entries.
Sound(K) ==
    /\ K \in CacheRec
    /\ \A b \in Bins : K.bins[b].active = Nil => K.bins[b].size = 0
    /\ \E F, ord : Linked(K, InUse(K), F, ord)
    /\ K.total = Sum(K) /\ K.total <= MaxCacheSize

LEMMA SizeTypes ==
    /\ k_capacity \in Nat /\ k_capacity # 0 /\ MaxCacheSize \in Nat
    /\ \A b \in Bins : /\ ObjectSize[b] \in Nat /\ ObjectSize[b] # 0
                       /\ BatchSize[b] \in 1 .. k_capacity
                       /\ BatchSize[b] * ObjectSize[b] <= MaxCacheSize
                       /\ ObjectSize[b] <= BatchSize[b] * ObjectSize[b]
<1>1. /\ k_capacity \in Nat /\ k_capacity # 0 /\ MaxCacheSize \in Nat
      /\ \A b \in Bins : /\ ObjectSize[b] \in Nat /\ ObjectSize[b] # 0
                         /\ BatchSize[b] \in 1 .. k_capacity
                         /\ BatchSize[b] * ObjectSize[b] <= MaxCacheSize
  BY Zenon, CacheAssumption
<1>2. \A m, n \in Nat : m >= 1 => n <= m * n
  OBVIOUS
<1>3. \A b \in Bins : BatchSize[b] \in Nat /\ BatchSize[b] >= 1
  BY <1>1
<1> QED BY Zenon, <1>1, <1>2, <1>3

LEMMA HeaderFields ==
    ASSUME NEW K \in CacheRec, NEW b \in Bins
    PROVE  K.bins[b].active \in Pointer /\ K.bins[b].size \in 0 .. k_capacity
<1>1. K.bins[b] \in HeaderRec
  BY Zenon, CacheFields
<1> QED BY Zenon, <1>1 DEF HeaderRec

LEMMA BytesType ==
    ASSUME NEW K \in CacheRec, NEW x \in Block
    PROVE  NumObjects(K, x) \in 0 .. k_capacity /\ Bytes(K, x) \in Int
<1>1. PICK b \in Bins : b = K.blocks[x].bin_no
  BY Zenon, CacheFields, Fields
<1>2. k_capacity \in 0 .. k_capacity
  BY SizeTypes
<1>3. NumObjects(K, x) \in 0 .. k_capacity
  BY Zenon, <1>1, <1>2, HeaderFields DEF NumObjects
<1>4. ObjectSize[b] \in Int /\ \A n \in 0 .. k_capacity : n \in Int
  BY SizeTypes
<1>5. \A m, n \in Int : m * n \in Int
  OBVIOUS
<1>6. 0 \in Int
  OBVIOUS
<1> QED BY Zenon, <1>1, <1>3, <1>4, <1>5, <1>6 DEF Bytes

LEMMA SumChange ==
    ASSUME NEW K \in CacheRec, NEW G \in CacheRec, NEW k \in Block,
           \A x \in Block \ {k} : Bytes(G, x) = Bytes(K, x)
    PROVE  Sum(K) \in Int /\ Sum(G) = Sum(K) + (Bytes(G, k) - Bytes(K, k))
<1>1. PICK w \in [Block -> Int] : w = [x \in Block |-> Bytes(K, x)]
  BY Zenon, BytesType
<1>2. PICK v \in [Block -> Int] : v = [x \in Block |-> Bytes(G, x)]
  BY Zenon, BytesType
<1>3. \A x \in Block \ {k} : v[x] = w[x]
  BY Zenon, <1>1, <1>2
<1>4. Total(w) \in Int /\ Total(v) = Total(w) + (v[k] - w[k])
  BY Zenon, <1>3, TotalChange
<1>5. v[k] = Bytes(G, k) /\ w[k] = Bytes(K, k)
  BY Zenon, <1>1, <1>2
<1> QED BY Zenon, <1>1, <1>2, <1>4, <1>5 DEF Sum

\* A block that both caches use alike.
LEMMA SameHolds ==
    ASSUME NEW K, NEW G, NEW x, x \in InUse(K), x \in InUse(G), SameBlock(K, G, x)
    PROVE  Bytes(G, x) = Bytes(K, x) /\ \A i, o : Holds(G, x, i, o) <=> Holds(K, x, i, o)
BY Zenon DEF SameBlock, Bytes, Holds

LEMMA UnusedHolds ==
    ASSUME NEW K, NEW x, x \notin InUse(K)
    PROVE  Bytes(K, x) = 0 /\ \A i, o : ~Holds(K, x, i, o)
BY Zenon DEF Bytes, Holds

\* The cache D is sound and holds what K does but for block k.
Dropped(K, T, D, k) ==
    /\ Sound(D)
    /\ D.bins = T.bins
    /\ \A x, i, o : Holds(D, x, i, o) <=> Holds(K, x, i, o) /\ x # k

\* A block that is in use leaves a sound cache.
LEMMA DropSound ==
    ASSUME NEW K, Sound(K), NEW T \in CacheRec, NEW k \in InUse(K), SameBlocks(K, T),
           NEW b, b = K.blocks[k].bin_no, Leaves(K, T, k, b),
           T.bins[b].active = Nil => T.bins[b].size = 0,
           T.total = K.total - NumObjects(K, k) * ObjectSize[b]
    PROVE  Dropped(K, T, DropBlock(T, k), k)
<1> DEFINE U == InUse(K)
<1>1. K \in CacheRec /\ K.total = Sum(K) /\ K.total <= MaxCacheSize
  BY Zenon DEF Sound
<1>2. PICK F, ord : Linked(K, U, F, ord)
  BY Zenon DEF Sound
<1>3. PICK D \in CacheRec :
           /\ DropBlock(T, k) = D
           /\ D.total = T.total /\ D.bins = T.bins
           /\ Linked(D, U \ {k}, F \cup {k}, Put(ord, k, F))
           /\ \A x \in U \ {k} : SameBlock(K, D, x)
  <2>1. /\ DropBlock(T, k) \in CacheRec
        /\ DropBlock(T, k).total = T.total /\ DropBlock(T, k).bins = T.bins
        /\ Linked(DropBlock(T, k), U \ {k}, F \cup {k}, Put(ord, k, F))
        /\ \A x \in U \ {k} : SameBlock(K, DropBlock(T, k), x)
    <3>1. Leaves(K, T, k, K.blocks[k].bin_no) /\ K \in CacheRec /\ k \in U
      BY Zenon, <1>1
    <3> HIDE DEF U
    <3> QED BY Zenon, <1>2, <3>1, DropEffect
  <2> QED BY Zenon, <2>1
<1>4. InUse(D) = U \ {k}
  BY Zenon, <1>3, LinkedWalks
<1>5. U \in SUBSET Block /\ k \in Block
  BY Zenon, <1>2 DEF Linked
<1>6. ASSUME NEW x, x # k
      PROVE  Bytes(D, x) = Bytes(K, x) /\ \A i, o : Holds(D, x, i, o) <=> Holds(K, x, i, o)
  <2>1. CASE x \in U
    BY ZenonT(60), <1>3, <1>4, <1>6, <2>1, SameHolds
  <2>2. CASE x \notin U
    BY Zenon, <1>4, <2>2, UnusedHolds
  <2> QED BY Zenon, <2>1, <2>2
<1>7. Bytes(D, k) = 0 /\ \A i, o : ~Holds(D, k, i, o)
  BY ZenonT(60), <1>4, UnusedHolds
<1>8. D.total = Sum(D) /\ D.total <= MaxCacheSize
  <2>0. \A x \in Block \ {k} : Bytes(D, x) = Bytes(K, x)
    BY Zenon, <1>6
  <2>1. Sum(K) \in Int /\ Sum(D) = Sum(K) + (Bytes(D, k) - Bytes(K, k))
    BY Zenon, <1>1, <1>5, <2>0, SumChange
  <2>2. Bytes(K, k) = NumObjects(K, k) * ObjectSize[b]
    BY Zenon DEF Bytes
  <2>3. b \in Bins
    BY ZenonT(60), <1>1, <1>5, CacheFields, Fields
  <2>4. ObjectSize[b] \in Nat /\ NumObjects(K, k) \in Nat
    BY <1>1, <1>5, <2>3, SizeTypes, BytesType
  <2>5. \A m, n \in Nat : m * n \in Nat
    OBVIOUS
  <2>6. PICK d \in Nat : d = NumObjects(K, k) * ObjectSize[b]
    BY ZenonT(60), <2>4, <2>5
  <2>7. Sum(D) = Sum(K) + (0 - d) /\ D.total = Sum(K) - d
    BY ZenonT(60), <1>1, <1>3, <1>7, <2>1, <2>2, <2>6
  <2> QED BY <1>1, <2>1, <2>7, SizeTypes
<1>9. \A a \in Bins : D.bins[a].active = Nil => D.bins[a].size = 0
  <2>1. \A a \in Bins \ {b} : D.bins[a] = K.bins[a]
    BY Zenon, <1>3 DEF Leaves
  <2> QED BY ZenonT(60), <1>3, <2>1 DEF Sound
<1>10. Sound(D)
  BY Zenon, <1>3, <1>4, <1>8, <1>9 DEF Sound
<1>11. \A x, i, o : Holds(D, x, i, o) <=> Holds(K, x, i, o) /\ x # k
  BY Zenon, <1>6, <1>7
<1>12. Dropped(K, T, D, k)
  BY Zenon, <1>3, <1>10, <1>11 DEF Dropped
<1> QED BY Zenon, <1>3, <1>12

\* Both caches have the same lists.
SameLinks(K, G) ==
    /\ G.m_blocks = K.m_blocks /\ G.uninit_top = K.uninit_top
    /\ G.oldest = K.oldest /\ G.newest = K.newest
    /\ \A x \in Block : /\ G.blocks[x].bin_no = K.blocks[x].bin_no
                        /\ G.blocks[x].older = K.blocks[x].older
                        /\ G.blocks[x].newer = K.blocks[x].newer
                        /\ G.blocks[x].bin_older = K.blocks[x].bin_older
                        /\ G.blocks[x].bin_newer = K.blocks[x].bin_newer
    /\ \A b \in Bins : G.bins[b].active = K.bins[b].active

LEMMA SameLinked ==
    ASSUME NEW K, NEW G, SameLinks(K, G), NEW U, NEW F, NEW ord, Linked(K, U, F, ord)
    PROVE  Linked(G, U, F, ord)
<1>1. U \in SUBSET Block /\ F \in SUBSET Block
  BY Zenon DEF Linked
<1>2. Untouched(G) = Untouched(K)
  BY Zenon DEF SameLinks, Untouched
<1>3. AgeLinked(G, U, ord)
  <2>1. AgeLinked(K, U, ord)
    BY Zenon DEF Linked
  <2> QED BY Zenon, <1>1, <2>1 DEF AgeLinked, SameLinks
<1>4. FreeLinked(G, F, ord)
  <2>1. FreeLinked(K, F, ord)
    BY Zenon DEF Linked
  <2> QED BY Zenon, <1>1, <2>1 DEF FreeLinked, SameLinks
<1>5. ASSUME NEW b \in Bins
      PROVE  BinLinked(G, BinSet(G, U, b), ord, b)
  <2>1. BinSet(G, U, b) = BinSet(K, U, b)
    BY Zenon, <1>1 DEF BinSet, SameLinks
  <2>2. BinLinked(K, BinSet(K, U, b), ord, b) /\ BinSet(K, U, b) \subseteq Block
    BY Zenon, <1>1 DEF Linked, BinSet
  <2> HIDE DEF BinSet
  <2> QED BY Zenon, <2>1, <2>2 DEF BinLinked, SameLinks
<1> QED BY Zenon, <1>2, <1>3, <1>4, <1>5 DEF Linked

\* One entry of the active block of a bin, the bin's size and the total are set.
WithEntry(K, b, k, i, v, n, t) ==
    [K EXCEPT !.blocks[k].cache[i] = v, !.bins[b].size = n, !.total = t]

\* What G has of K and of the entry.
Entered(K, G, b, k, i, v, n, t) ==
    /\ G \in CacheRec /\ SameLinks(K, G) /\ G.total = t
    /\ G.bins[b].size = n
    /\ \A a \in Bins \ {b} : G.bins[a] = K.bins[a]
    /\ \A x \in Block \ {k} : G.blocks[x] = K.blocks[x]
    /\ G.blocks[k].cache[i] = v
    /\ \A j \in 1 .. k_capacity : j # i => G.blocks[k].cache[j] = K.blocks[k].cache[j]

LEMMA EntryFields ==
    ASSUME NEW K \in CacheRec, NEW b \in Bins, NEW k \in Block,
           NEW i \in 1 .. k_capacity, NEW v \in Object \cup {NullOffset},
           NEW n \in 0 .. k_capacity, NEW t \in Int
    PROVE  Entered(K, WithEntry(K, b, k, i, v, n, t), b, k, i, v, n, t)
<1>1. PICK B \in [Block -> BlockRec] : B = K.blocks
  BY Zenon, CacheFields
<1>2. PICK H \in [Bins -> HeaderRec] : H = K.bins
  BY Zenon, CacheFields
<1>3. PICK r \in BlockRec : r = B[k]
  BY Zenon 
<1>4. PICK q \in [1 .. k_capacity -> Object \cup {NullOffset}] : q = r.cache
  BY Zenon, Fields
<1>5. PICK h \in HeaderRec : h = H[b]
  BY Zenon 
<1> DEFINE p == [q EXCEPT ![i] = v]
           e == [r EXCEPT !.cache = p]
           C == [B EXCEPT ![k] = e]
           g == [h EXCEPT !.size = n]
           I == [H EXCEPT ![b] = g]
           E == [K EXCEPT !.blocks = C, !.bins = I, !.total = t]
<1>6. WithEntry(K, b, k, i, v, n, t) = E
  BY ZenonT(60), <1>1, <1>2, <1>3, <1>4, <1>5 DEF WithEntry, CacheRec
<1>7. /\ p \in [1 .. k_capacity -> Object \cup {NullOffset}]
      /\ p[i] = v /\ \A j \in 1 .. k_capacity : j # i => p[j] = q[j]
  BY Zenon 
<1> HIDE DEF p
<1>8. /\ e \in BlockRec /\ e.cache = p /\ e.bin_no = r.bin_no /\ e.older = r.older
      /\ e.newer = r.newer /\ e.bin_older = r.bin_older /\ e.bin_newer = r.bin_newer
  BY Zenon, <1>7 DEF BlockRec
<1> HIDE DEF e
<1>9. C \in [Block -> BlockRec] /\ C[k] = e /\ \A x \in Block \ {k} : C[x] = B[x]
  BY Zenon, <1>8
<1> HIDE DEF C
<1>10. g \in HeaderRec /\ g.size = n /\ g.active = h.active
  BY Zenon DEF HeaderRec
<1> HIDE DEF g
<1>11. I \in [Bins -> HeaderRec] /\ I[b] = g /\ \A a \in Bins \ {b} : I[a] = H[a]
  BY Zenon, <1>10
<1> HIDE DEF I
<1>12. /\ E \in CacheRec /\ E.blocks = C /\ E.bins = I /\ E.total = t
       /\ E.m_blocks = K.m_blocks /\ E.uninit_top = K.uninit_top
       /\ E.oldest = K.oldest /\ E.newest = K.newest
  BY Zenon, <1>9, <1>11 DEF CacheRec
<1> HIDE DEF E
<1>13. SameLinks(K, E)
  <2>1. \A x \in Block : /\ C[x].bin_no = B[x].bin_no
                         /\ C[x].older = B[x].older /\ C[x].newer = B[x].newer
                         /\ C[x].bin_older = B[x].bin_older
                         /\ C[x].bin_newer = B[x].bin_newer
    BY Zenon, <1>3, <1>8, <1>9
  <2>2. \A a \in Bins : I[a].active = H[a].active
    BY Zenon, <1>5, <1>10, <1>11
  <2> QED BY ZenonT(60), <1>1, <1>2, <1>12, <2>1, <2>2 DEF SameLinks
<1>14. /\ \A x \in Block \ {k} : E.blocks[x] = K.blocks[x]
       /\ E.blocks[k].cache[i] = v
       /\ \A j \in 1 .. k_capacity : j # i => E.blocks[k].cache[j] = K.blocks[k].cache[j]
  BY ZenonT(60), <1>1, <1>3, <1>4, <1>7, <1>8, <1>9, <1>12
<1>15. Entered(K, E, b, k, i, v, n, t)
  BY ZenonT(60), <1>2, <1>10, <1>11, <1>12, <1>13, <1>14 DEF Entered
<1> QED BY Zenon, <1>6, <1>15

\* The active block of a bin is in use and of that bin.
LEMMA ActiveInUse ==
    ASSUME NEW K, Sound(K), NEW b \in Bins, K.bins[b].active # Nil
    PROVE  /\ K.bins[b].active \in InUse(K) /\ K.bins[b].active \in Block
           /\ K.blocks[K.bins[b].active].bin_no = b
           /\ NumObjects(K, K.bins[b].active) = K.bins[b].size
<1>1. PICK F, ord : Linked(K, InUse(K), F, ord)
  BY Zenon DEF Sound
<1>2. Top(BinSet(K, InUse(K), b), ord, K.bins[b].active) /\ InUse(K) \in SUBSET Block
  BY Zenon, <1>1 DEF Linked, BinLinked
<1>3. /\ K.bins[b].active \in InUse(K) /\ K.bins[b].active \in Block
      /\ K.blocks[K.bins[b].active].bin_no = b
  BY Zenon, <1>2 DEF Top, BinSet
<1>4. NumObjects(K, K.bins[b].active) = K.bins[b].size
  BY Zenon, <1>3 DEF NumObjects
<1> QED BY ZenonT(60), <1>3, <1>4

\* The cache G holds what K does, and in block k n entries, v in entry i.
EntrySet(K, G, k, i, v, n) ==
    /\ Sound(G)
    /\ \A x : x # k => \A j, o : Holds(G, x, j, o) <=> Holds(K, x, j, o)
    /\ \A j, o : Holds(G, k, j, o) <=> /\ j \in 1 .. n /\ o \in Object
                                       /\ o = IF j = i THEN v ELSE K.blocks[k].cache[j]

LEMMA EntrySound ==
    ASSUME NEW K, Sound(K), NEW b \in Bins, NEW k, k = K.bins[b].active, k # Nil,
           NEW i \in 1 .. k_capacity, NEW v \in Object \cup {NullOffset},
           NEW n \in 0 .. k_capacity, NEW t, t <= MaxCacheSize,
           t = K.total + (n - K.bins[b].size) * ObjectSize[b],
           NEW G, Entered(K, G, b, k, i, v, n, t)
    PROVE  EntrySet(K, G, k, i, v, n)
<1>1. K \in CacheRec /\ K.total = Sum(K) /\ K.total \in Int
  BY Zenon, CacheFields DEF Sound
<1>2. /\ k \in InUse(K) /\ k \in Block /\ K.blocks[k].bin_no = b
      /\ NumObjects(K, k) = K.bins[b].size
  BY ZenonT(60), ActiveInUse
<1>3. PICK s \in 0 .. k_capacity : s = K.bins[b].size
  BY Zenon, <1>1, HeaderFields
<1>4. PICK z \in Nat : z = ObjectSize[b]
  BY Zenon, SizeTypes
<1>5. s \in Int /\ n \in Int /\ t \in Int /\ t = K.total + (n - s) * z
  <2>1. s \in Int /\ n \in Int /\ z \in Int
    BY SizeTypes
  <2>2. t = K.total + (n - s) * z
    BY Zenon, <1>3, <1>4
  <2>3. (n - s) * z \in Int
    BY <2>1
  <2> QED BY <1>1, <2>1, <2>2, <2>3
<1>6. /\ G \in CacheRec /\ SameLinks(K, G) /\ G.total = t
      /\ G.bins[b].size = n
      /\ \A a \in Bins \ {b} : G.bins[a] = K.bins[a]
      /\ \A x \in Block \ {k} : G.blocks[x] = K.blocks[x]
      /\ G.blocks[k].cache[i] = v
      /\ \A j \in 1 .. k_capacity : j # i => G.blocks[k].cache[j] = K.blocks[k].cache[j]
  BY Zenon DEF Entered
<1>7. G.bins[b].active = k /\ G.blocks[k].bin_no = b
  BY Zenon, <1>2, <1>6 DEF SameLinks
<1>8. PICK F, ord : Linked(K, InUse(K), F, ord)
  BY Zenon DEF Sound
<1>9. Linked(G, InUse(K), F, ord) /\ InUse(K) \in SUBSET Block
  <2>1. Linked(G, InUse(K), F, ord)
    BY ONLY Zenon, <1>6, <1>8, SameLinked
  <2> QED BY Zenon, <2>1 DEF Linked
<1>10. InUse(G) = InUse(K)
  BY Zenon, <1>9, LinkedWalks
<1>11. NumObjects(G, k) = n
  BY Zenon, <1>6, <1>7 DEF NumObjects
<1>12. ASSUME NEW x, x # k
       PROVE  Bytes(G, x) = Bytes(K, x) /\ \A j, o : Holds(G, x, j, o) <=> Holds(K, x, j, o)
  <2>1. CASE x \in InUse(K)
    <3>1. x \in Block \ {k} /\ G.blocks[x] = K.blocks[x]
      BY Zenon, <1>6, <1>9, <1>12, <2>1
    <3>2. PICK a \in Bins : a = K.blocks[x].bin_no
      BY Zenon, <1>1, <3>1, CacheFields, Fields
    <3>3. (IF G.bins[a].active = x THEN G.bins[a].size ELSE k_capacity)
            = (IF K.bins[a].active = x THEN K.bins[a].size ELSE k_capacity)
      BY ZenonT(60), <1>6, <1>7, <1>12
    <3>4. SameBlock(K, G, x)
      BY Zenon, <3>1, <3>2, <3>3 DEF SameBlock, NumObjects
    <3> QED BY Zenon, <1>10, <2>1, <3>4, SameHolds
  <2>2. CASE x \notin InUse(K)
    BY Zenon, <1>10, <2>2, UnusedHolds
  <2> QED BY Zenon, <2>1, <2>2
<1>13. \A j, o : Holds(G, k, j, o) <=>
                    /\ j \in 1 .. n /\ o \in Object
                    /\ o = IF j = i THEN v ELSE K.blocks[k].cache[j]
  <2>1. 1 .. n \subseteq 1 .. k_capacity
    BY SizeTypes
  <2> QED BY ZenonT(60), <1>2, <1>6, <1>10, <1>11, <2>1 DEF Holds
<1>14. G.total = Sum(G)
  <2>1. \A x \in Block \ {k} : Bytes(G, x) = Bytes(K, x)
    BY ZenonT(60), <1>12
  <2>2. Sum(K) \in Int /\ Sum(G) = Sum(K) + (Bytes(G, k) - Bytes(K, k))
    BY ZenonT(60), <1>1, <1>2, <1>6, <2>1, SumChange
  <2>3. Bytes(G, k) = n * z /\ Bytes(K, k) = s * z
    BY ZenonT(60), <1>2, <1>3, <1>4, <1>7, <1>10, <1>11 DEF Bytes
  <2>4. (n - s) * z = n * z - s * z
    BY <1>5
  <2>5. n * z \in Int /\ s * z \in Int
    BY <1>5
  <2>6. Bytes(G, k) - Bytes(K, k) = (n - s) * z
    BY Zenon, <2>3, <2>4
  <2>7. K.total + (n - s) * z = Sum(G)
    BY Zenon, <1>1, <2>2, <2>6
  <2> QED BY Zenon, <1>5, <1>6, <2>7
<1>15. \A a \in Bins : G.bins[a].active = Nil => G.bins[a].size = 0
  <2>1. \A a \in Bins \ {b} : K.bins[a].active = Nil => K.bins[a].size = 0
    BY Zenon DEF Sound
  <2> QED BY ZenonT(60), <1>6, <1>7, <2>1
<1>16. Sound(G)
  BY ZenonT(60), <1>6, <1>9, <1>10, <1>14, <1>15 DEF Sound
<1> QED BY Zenon, <1>12, <1>13, <1>16 DEF EntrySet

\* The cache A with a new block gets the objects of the block and their size.
Stocked(A, G, k, t) ==
    /\ G \in CacheRec /\ SameLinks(A, G) /\ G.bins = A.bins /\ G.total = t
    /\ \A x \in Block \ {k} : G.blocks[x].cache = A.blocks[x].cache

\* The cache G holds what K does, and has n entries in the new block k of bin b.
AddedTo(K, G, b, n, k) ==
    /\ Sound(G)
    /\ k \in Block \ InUse(K)
    /\ G.bins[b] = [active |-> k, size |-> n]
    /\ \A x : x # k => \A i, o : Holds(G, x, i, o) <=> Holds(K, x, i, o)
    /\ k \in InUse(G) /\ NumObjects(G, k) = n

LEMMA AddSound ==
    ASSUME NEW K, Sound(K), ~NoFreeBlock(K), NEW b \in Bins, NEW n \in 0 .. k_capacity,
           K.bins[b].active # Nil => K.bins[b].size = k_capacity,
           NEW t, t <= MaxCacheSize, t = K.total + n * ObjectSize[b],
           NEW G, Stocked(AddBlock(K, b, n), G, FreeBlock(K), t)
    PROVE  AddedTo(K, G, b, n, FreeBlock(K))
<1> DEFINE U == InUse(K)
<1>1. PICK k : k = FreeBlock(K)
  OBVIOUS
<1>2. K \in CacheRec /\ K.total = Sum(K)
  BY Zenon DEF Sound
<1>3. PICK F, ord : Linked(K, U, F, ord)
  BY Zenon DEF Sound
<1>4. PICK A \in CacheRec :
           /\ A = AddBlock(K, b, n)
           /\ k \in Block \ U
           /\ A.newest = k
           /\ A.bins[b] = [active |-> k, size |-> n]
           /\ \A a \in Bins \ {b} : A.bins[a] = K.bins[a]
           /\ A.blocks[k].bin_no = b
           /\ Linked(A, U \cup {k}, F \ {k}, Put(ord, k, U))
           /\ \A x \in U : SameBlock(K, A, x)
  <2> HIDE DEF U
  <2>1. Added(K, AddBlock(K, b, n), b, n, FreeBlock(K), U, F, ord)
    BY Zenon, <1>2, <1>3, AddEffect
  <2> QED BY Zenon, <1>1, <2>1 DEF Added
<1>5. /\ G \in CacheRec /\ SameLinks(A, G) /\ G.bins = A.bins /\ G.total = t
      /\ \A x \in Block \ {k} : G.blocks[x].cache = A.blocks[x].cache
  BY Zenon, <1>1, <1>4 DEF Stocked
<1>6. Linked(G, U \cup {k}, F \ {k}, Put(ord, k, U))
  BY Zenon, <1>4, <1>5, SameLinked
<1>7. InUse(G) = U \cup {k}
  BY Zenon, <1>6, LinkedWalks
<1>8. /\ U \in SUBSET Block /\ G.newest = k
      /\ \A x \in Block : G.blocks[x].bin_no = A.blocks[x].bin_no
  BY ZenonT(60), <1>3, <1>4, <1>5 DEF Linked, SameLinks
<1>9. G.bins[b].active = k /\ G.bins[b].size = n
  BY <1>4, <1>5
<1>10. NumObjects(G, k) = n /\ G.blocks[k].bin_no = b
  BY Zenon, <1>4, <1>8, <1>9 DEF NumObjects
<1>11. ASSUME NEW x, x # k
       PROVE  Bytes(G, x) = Bytes(K, x) /\ \A i, o : Holds(G, x, i, o) <=> Holds(K, x, i, o)
  <2>1. CASE x \in U
    <3>1. SameBlock(K, A, x) /\ x \in Block \ {k}
      BY Zenon, <1>4, <1>8, <2>1
    <3>2. NumObjects(G, x) = NumObjects(A, x)
      BY Zenon, <1>5, <1>8, <3>1 DEF NumObjects
    <3>3. SameBlock(K, G, x)
      BY ZenonT(60), <1>5, <1>8, <3>1, <3>2 DEF SameBlock
    <3> QED BY ZenonT(60), <1>7, <2>1, <3>3, SameHolds
  <2>2. CASE x \notin U
    BY ZenonT(60), <1>7, <1>11, <2>2, UnusedHolds
  <2> QED BY Zenon, <2>1, <2>2
<1>12. G.total = Sum(G)
  <2>1. \A x \in Block \ {k} : Bytes(G, x) = Bytes(K, x)
    BY Zenon, <1>11
  <2>2. Sum(K) \in Int /\ Sum(G) = Sum(K) + (Bytes(G, k) - Bytes(K, k))
    BY ZenonT(60), <1>2, <1>4, <1>5, <2>1, SumChange
  <2>3. Bytes(K, k) = 0
    BY Zenon, <1>4, UnusedHolds
  <2>4. Bytes(G, k) = n * ObjectSize[b]
    BY ZenonT(60), <1>7, <1>10 DEF Bytes
  <2>5. n * ObjectSize[b] - 0 = n * ObjectSize[b]
    <3>1. n \in Int /\ ObjectSize[b] \in Int
      BY SizeTypes
    <3> QED BY <3>1
  <2>6. Sum(G) = K.total + n * ObjectSize[b]
    BY ZenonT(60), <1>2, <2>2, <2>3, <2>4, <2>5
  <2> QED BY Zenon, <1>5, <2>6
<1>13. \A a \in Bins : G.bins[a].active = Nil => G.bins[a].size = 0
  <2>1. \A a \in Bins \ {b} : G.bins[a] = K.bins[a]
    BY ZenonT(60), <1>4, <1>5
  <2>2. G.bins[b].active # Nil
    BY Zenon, <1>4, <1>9, NilIsNoBlock
  <2> QED BY Zenon, <2>1, <2>2 DEF Sound
<1>14. Sound(G)
  BY ZenonT(60), <1>5, <1>6, <1>7, <1>12, <1>13 DEF Sound
<1>15. G.bins[b] = [active |-> k, size |-> n] /\ k \in InUse(G) /\ k \in Block \ InUse(K)
  BY Zenon, <1>4, <1>5, <1>7
<1>16. AddedTo(K, G, b, n, k)
  BY ZenonT(60), <1>10, <1>11, <1>14, <1>15 DEF AddedTo
<1> QED BY Zenon, <1>1, <1>16

\* Popping the last entry of the active block of bin b.
Popped(K, b) ==
    LET h == K.bins[b]
    IN  [K EXCEPT !.blocks[h.active].cache[h.size] = NullOffset,
                  !.bins[b].size = @ - 1,
                  !.total = @ - ObjectSize[b]]

Last(K, b) == K.blocks[K.bins[b].active].cache[K.bins[b].size]

\* The cache G holds what K does but for entry s of block k, which has o if it is an object.
Taken(K, G, k, s, o) ==
    /\ Sound(G)
    /\ o \in Object \cup {NullOffset}
    /\ o \in Object => Holds(K, k, s, o)
    /\ \A x, i, p : Holds(G, x, i, p) <=> Holds(K, x, i, p) /\ ~(x = k /\ i = s)
    /\ \A p : Holds(K, k, s, p) => p = o

LEMMA NullIsNoObject == NullOffset \notin Object
BY Zenon, CacheAssumption

LEMMA PopSound ==
    ASSUME NEW K, Sound(K), NEW b \in Bins, K.bins[b].size # 0
    PROVE  Taken(K, Popped(K, b), K.bins[b].active, K.bins[b].size, Last(K, b))
<1>1. K \in CacheRec /\ K.bins[b].active # Nil /\ K.total <= MaxCacheSize /\ K.total \in Int
  BY Zenon, CacheFields DEF Sound
<1>2. PICK k \in Block : k = K.bins[b].active /\ k \in InUse(K)
  BY Zenon, <1>1, ActiveInUse
<1>3. NumObjects(K, k) = K.bins[b].size
  BY Zenon, <1>1, <1>2, ActiveInUse
<1>4. PICK s \in 1 .. k_capacity : s = K.bins[b].size
  <2>1. \A n \in 0 .. k_capacity : n # 0 => n \in 1 .. k_capacity
    BY SizeTypes
  <2> QED BY Zenon, <1>1, <2>1, HeaderFields
<1>5. PICK z \in Nat : z = ObjectSize[b] /\ z \in Int
  BY SizeTypes
<1>6. /\ s - 1 \in 0 .. k_capacity /\ K.total - z \in Int /\ K.total - z <= MaxCacheSize
      /\ K.total - z = K.total + ((s - 1) - s) * z
      /\ 1 .. (s - 1) = 1 .. s \ {s}
  <2>1. s \in Int /\ s >= 1 /\ s <= k_capacity
    BY SizeTypes
  <2>2. ((s - 1) - s) * z = 0 - z
    <3>1. (s - 1) - s = 0 - 1
      BY <2>1
    <3>2. (0 - 1) * z = 0 - z
      BY <1>5
    <3> QED BY Zenon, <3>1, <3>2
  <2>3. K.total - z = K.total + (0 - z) /\ K.total - z \in Int
    BY <1>1, <1>5
  <2>4. K.total - z <= MaxCacheSize
    BY <1>1, <1>5, SizeTypes
  <2>5. s - 1 \in 0 .. k_capacity
    BY <2>1, SizeTypes
  <2>6. 1 .. (s - 1) = 1 .. s \ {s}
    BY <2>1
  <2> QED BY ZenonT(60), <2>2, <2>3, <2>4, <2>5, <2>6
<1>7. PICK n \in 0 .. k_capacity : n = s - 1
  BY Zenon, <1>6
<1>8. PICK t \in Int : t = K.total - z
  BY Zenon, <1>6
<1>9. PICK G : G = WithEntry(K, b, k, s, NullOffset, n, t)
  OBVIOUS
<1>10. Popped(K, b) = G
  BY ZenonT(60), <1>2, <1>4, <1>5, <1>7, <1>8, <1>9 DEF Popped, WithEntry
<1>11. Entered(K, G, b, k, s, NullOffset, n, t)
  <2>1. NullOffset \in Object \cup {NullOffset}
    OBVIOUS
  <2> QED BY ZenonT(60), <1>1, <1>9, <2>1, EntryFields
<1>12. t <= MaxCacheSize /\ t = K.total + (n - K.bins[b].size) * ObjectSize[b] /\ k # Nil
  BY ZenonT(60), <1>1, <1>2, <1>4, <1>5, <1>6, <1>7, <1>8
<1>13. /\ Sound(G)
       /\ \A x : x # k => \A j, o : Holds(G, x, j, o) <=> Holds(K, x, j, o)
       /\ \A j, o : Holds(G, k, j, o) <=>
                       /\ j \in 1 .. n /\ o \in Object
                       /\ o = IF j = s THEN NullOffset ELSE K.blocks[k].cache[j]
  <2>1. NullOffset \in Object \cup {NullOffset}
    OBVIOUS
  <2>2. EntrySet(K, G, k, s, NullOffset, n)
    BY ZenonT(60), <1>2, <1>11, <1>12, <2>1, EntrySound
  <2> QED BY Zenon, <2>2 DEF EntrySet
<1>14. \A j, o : Holds(K, k, j, o) <=> /\ j \in 1 .. s /\ o \in Object
                                       /\ K.blocks[k].cache[j] = o
  BY ZenonT(60), <1>2, <1>3, <1>4 DEF Holds
<1>15. s \in 1 .. s
  BY SizeTypes
<1>16. \A j, o : Holds(G, k, j, o) <=> Holds(K, k, j, o) /\ j # s
  <2>1. \A j : j \in 1 .. n <=> j \in 1 .. s /\ j # s
    BY Zenon, <1>6, <1>7
  <2> QED BY ZenonT(60), <1>13, <1>14, <2>1, NullIsNoObject
<1>17. PICK q : q = K.blocks[k].cache[s]
  OBVIOUS
<1>18. q \in Object \cup {NullOffset}
  <2>1. K.blocks[k].cache \in [1 .. k_capacity -> Object \cup {NullOffset}]
    BY Zenon, <1>1, CacheFields, Fields
  <2> QED BY Zenon, <1>17, <2>1
<1>19. Last(K, b) = q
  BY Zenon, <1>2, <1>4, <1>17 DEF Last
<1>20. (q \in Object => Holds(K, k, s, q)) /\ \A p : Holds(K, k, s, p) => p = q
  BY Zenon, <1>14, <1>15, <1>17
<1>21. ASSUME NEW x, NEW i, NEW p
       PROVE  Holds(G, x, i, p) <=> Holds(K, x, i, p) /\ ~(x = k /\ i = s)
  <2>1. CASE x = k
    BY Zenon, <1>16, <2>1
  <2>2. CASE x # k
    BY Zenon, <1>13, <2>2
  <2> QED BY Zenon, <2>1, <2>2
<1>22. Taken(K, G, k, s, q)
  BY Zenon, <1>13, <1>18, <1>20, <1>21 DEF Taken
<1> QED BY ZenonT(60), <1>2, <1>4, <1>10, <1>19, <1>22

\* Both caches are sound and hold the same.
SameContents(K, D) == Sound(D) /\ \A x, i, o : Holds(D, x, i, o) <=> Holds(K, x, i, o)

\* The block that priv_pop takes from: an empty active block is freed first.
Nonempty(K, b) ==
    IF K.bins[b].size = 0 /\ K.bins[b].active # Nil
    THEN DropBlock(move_to_next_active_block(K, b), K.bins[b].active)
    ELSE K

LEMMA NoActiveHeader ==
    ASSUME NEW h \in HeaderRec, h.active = Nil, h.size = 0
    PROVE  h = NoActive
BY Zenon DEF HeaderRec, NoActive

LEMMA NonemptySound ==
    ASSUME NEW K, Sound(K), NEW b \in Bins
    PROVE  /\ SameContents(K, Nonempty(K, b))
           /\ Nonempty(K, b).bins[b].size = 0 => Nonempty(K, b).bins[b] = NoActive
<1>1. K \in CacheRec /\ K.bins \in [Bins -> HeaderRec]
  BY Zenon, CacheFields DEF Sound
<1>2. CASE K.bins[b].size = 0 /\ K.bins[b].active # Nil
  <2>1. PICK k \in Block : /\ k = K.bins[b].active /\ k \in InUse(K)
                           /\ K.blocks[k].bin_no = b /\ NumObjects(K, k) = 0
    BY ZenonT(60), <1>2, ActiveInUse
  <2>2. PICK next \in Pointer : next = K.blocks[k].bin_older
    BY Zenon, <1>1, CacheFields, Fields
  <2>3. PICK n \in 0 .. k_capacity : n = IF next = Nil THEN 0 ELSE k_capacity
    BY SizeTypes
  <2>4. PICK h \in HeaderRec : h = [active |-> next, size |-> n]
    BY Zenon DEF HeaderRec
  <2>5. h.active = next /\ h.size = n
    BY Zenon, <2>4
  <2>6. PICK H \in [Bins -> HeaderRec] : H = K.bins
    BY Zenon, <1>1
  <2> DEFINE I == [H EXCEPT ![b] = h]
             T == [K EXCEPT !.bins = I]
  <2>7. T = move_to_next_active_block(K, b)
    BY ZenonT(60), <2>1, <2>2, <2>3, <2>4, <2>6 DEF move_to_next_active_block
  <2>8. I \in [Bins -> HeaderRec] /\ I[b] = h /\ \A a \in Bins \ {b} : I[a] = H[a]
    BY Zenon 
  <2> HIDE DEF I
  <2>9. T \in CacheRec /\ T.bins = I /\ T.total = K.total /\ SameBlocks(K, T)
    BY Zenon, <1>1, <2>8 DEF CacheRec, SameBlocks
  <2> HIDE DEF T
  <2>10. Leaves(K, T, k, b)
    BY ZenonT(60), <2>1, <2>2, <2>3, <2>5, <2>6, <2>8, <2>9 DEF Leaves
  <2>11. T.bins[b].active = Nil => T.bins[b].size = 0
    BY Zenon, <2>3, <2>5, <2>8, <2>9
  <2>12. T.total = K.total - NumObjects(K, k) * ObjectSize[b]
    <3>1. K.total \in Int /\ ObjectSize[b] \in Int
      BY <1>1, CacheFields, SizeTypes
    <3>2. K.total - 0 * ObjectSize[b] = K.total
      BY <3>1
    <3> QED BY Zenon, <2>1, <2>9, <3>2
  <2>13. /\ Sound(DropBlock(T, k))
         /\ DropBlock(T, k).bins = T.bins
         /\ \A x, i, o : Holds(DropBlock(T, k), x, i, o) <=> Holds(K, x, i, o) /\ x # k
    <3>1. Dropped(K, T, DropBlock(T, k), k)
      BY Zenon, <2>1, <2>9, <2>10, <2>11, <2>12, DropSound
    <3> QED BY Zenon, <3>1 DEF Dropped
  <2>14. \A i, o : ~Holds(K, k, i, o)
    <3>1. \A i : i \notin 1 .. 0
      OBVIOUS
    <3> QED BY Zenon, <2>1, <3>1 DEF Holds
  <2>15. Nonempty(K, b) = DropBlock(T, k)
    BY Zenon, <1>2, <2>1, <2>7 DEF Nonempty
  <2>16. h.size = 0 => h = NoActive
    <3>1. k_capacity # 0
      BY Zenon, SizeTypes
    <3> QED BY ZenonT(60), <2>3, <2>5, <3>1, NoActiveHeader
  <2> QED BY ZenonT(60), <2>8, <2>9, <2>13, <2>14, <2>15, <2>16 DEF SameContents
<1>3. CASE ~(K.bins[b].size = 0 /\ K.bins[b].active # Nil)
  <2>1. Nonempty(K, b) = K
    BY Zenon, <1>3 DEF Nonempty
  <2>2. K.bins[b] \in HeaderRec
    BY Zenon, <1>1
  <2> QED BY ZenonT(60), <1>3, <2>1, <2>2, NoActiveHeader DEF SameContents
<1> QED BY ZenonT(60), <1>2, <1>3

\* There is a block to free as long as a cache needs room.
LEMMA OldestInUse ==
    ASSUME NEW K, Sound(K), NEW size \in Int, size <= MaxCacheSize, NeedsRoom(K, size)
    PROVE  K.oldest \in InUse(K)
<1>1. PICK F, ord : Linked(K, InUse(K), F, ord)
  BY Zenon DEF Sound
<1>2. Bottom(InUse(K), ord, K.oldest)
  BY Zenon, <1>1 DEF Linked, AgeLinked
<1>3. SUFFICES ASSUME InUse(K) = {}
               PROVE  FALSE
  BY Zenon, <1>2 DEF Bottom
<1>4. K.total = 0
  <2> DEFINE w == [k \in Block |-> Bytes(K, k)]
  <2>1. \A x \in Block : w[x] = 0
    BY Zenon, <1>3 DEF Bytes
  <2>2. Sum(K) = Total(w)
    BY Zenon DEF Sum
  <2> HIDE DEF w
  <2>3. Total(w) = 0
    BY Zenon, <2>1, TotalZero
  <2> QED BY Zenon, <2>2, <2>3 DEF Sound
<1>5. ~(K.total + size > MaxCacheSize)
  BY <1>4, SizeTypes
<1>6. K.m_blocks = Nil /\ K.uninit_top = Nil
  BY Zenon, <1>5 DEF NeedsRoom, NoFreeBlock
<1>7. F = {}
  BY Zenon, <1>1, <1>6, NilIsNoBlock DEF Linked, FreeLinked, Top
<1>8. Block = {}
  <2>1. Untouched(K) = {}
    BY Zenon, <1>6 DEF Untouched
  <2>2. {} \cup {} = Block \ {}
    BY Zenon, <1>1, <1>3, <1>7, <2>1 DEF Linked
  <2> QED BY Zenon, <2>2
<1> QED BY <1>8, NumBlocksType DEF Block

\* The cache once the totals of its oldest block are taken off, and once that block
\* is freed.
WithoutOldest(K) ==
    LET k == K.oldest
        b == K.blocks[k].bin_no
    IN  [K EXCEPT !.total = @ - NumObjects(K, k) * ObjectSize[b],
                  !.bins[b] = IF @.active = k THEN NoActive ELSE @]

LEMMA EvictSound ==
    ASSUME NEW K, Sound(K), K.oldest \in InUse(K)
    PROVE  /\ Dropped(K, WithoutOldest(K), DropBlock(WithoutOldest(K), K.oldest), K.oldest)
           /\ \A a \in Bins : K.bins[a] = NoActive => WithoutOldest(K).bins[a] = NoActive
<1>1. /\ K \in CacheRec /\ K.bins \in [Bins -> HeaderRec] /\ K.total \in Int
      /\ K.blocks \in [Block -> BlockRec]
  BY Zenon, CacheFields DEF Sound
<1>2. PICK F, ord : Linked(K, InUse(K), F, ord)
  BY Zenon DEF Sound
<1>3. PICK k \in Block : k = K.oldest /\ k # Nil /\ k \in InUse(K)
  BY Zenon, <1>2, NilIsNoBlock DEF Linked
<1>4. PICK b \in Bins : b = K.blocks[k].bin_no
  BY Zenon, <1>1, Fields
<1>5. K.bins[b].active = k => K.blocks[k].bin_older = Nil
  <2>1. Bottom(InUse(K), ord, k) /\ Ordered(InUse(K), ord)
    BY Zenon, <1>2, <1>3 DEF Linked, AgeLinked
  <2>2. BinSet(K, InUse(K), b) \subseteq InUse(K) /\ k \in BinSet(K, InUse(K), b)
    BY Zenon, <1>3, <1>4 DEF BinSet
  <2>3. Below(BinSet(K, InUse(K), b), ord, k, K.blocks[k].bin_older)
    BY Zenon, <1>2, <2>2 DEF Linked, BinLinked
  <2>4. \A z \in InUse(K) : z \notin ord[k]
    BY Zenon, <1>3, <2>1 DEF Bottom, Ordered
  <2> QED BY Zenon, <2>2, <2>3, <2>4 DEF Below
<1>6. PICK t \in Int : t = K.total - NumObjects(K, k) * ObjectSize[b]
  <2>1. NumObjects(K, k) \in Int /\ ObjectSize[b] \in Int
    BY <1>1, BytesType, SizeTypes
  <2>2. \A m, n, l \in Int : l - m * n \in Int
    OBVIOUS
  <2> QED BY Zenon, <1>1, <2>1, <2>2
<1>7. PICK h \in HeaderRec : h = IF K.bins[b].active = k THEN NoActive ELSE K.bins[b]
  <2>1. 0 \in 0 .. k_capacity
    BY SizeTypes
  <2>2. NoActive \in HeaderRec
    BY Zenon, <2>1, BlockType DEF HeaderRec, NoActive
  <2> QED BY Zenon, <1>1, <2>2
<1>8. PICK H \in [Bins -> HeaderRec] : H = K.bins
  BY Zenon, <1>1
<1> DEFINE I == [H EXCEPT ![b] = h]
           T == [K EXCEPT !.total = t, !.bins = I]
<1>9. T = WithoutOldest(K)
  BY Zenon, <1>3, <1>4, <1>6, <1>7, <1>8 DEF WithoutOldest
<1>10. I \in [Bins -> HeaderRec] /\ I[b] = h /\ \A a \in Bins \ {b} : I[a] = H[a]
  BY Zenon 
<1> HIDE DEF I
<1>11. T \in CacheRec /\ T.bins = I /\ T.total = t /\ SameBlocks(K, T)
  BY Zenon, <1>1, <1>10 DEF CacheRec, SameBlocks
<1> HIDE DEF T
<1>12. NoActive.active = Nil /\ NoActive.size = 0
  BY Zenon DEF NoActive
<1>13. Leaves(K, T, k, b)
  BY ZenonT(60), <1>5, <1>7, <1>8, <1>10, <1>11, <1>12 DEF Leaves
<1>14. T.bins[b].active = Nil => T.bins[b].size = 0
  <2>1. K.bins[b].active = Nil => K.bins[b].size = 0
    BY Zenon DEF Sound
  <2> QED BY ZenonT(60), <1>7, <1>10, <1>11, <1>12, <2>1
<1>15. T.total = K.total - NumObjects(K, k) * ObjectSize[b]
  BY Zenon, <1>6, <1>11
<1>16. Dropped(K, T, DropBlock(T, k), k)
  BY ZenonT(60), <1>3, <1>4, <1>11, <1>13, <1>14, <1>15, DropSound
<1>17. \A a \in Bins : K.bins[a] = NoActive => T.bins[a] = NoActive
  BY ZenonT(60), <1>7, <1>8, <1>10, <1>11
<1> QED BY Zenon, <1>3, <1>9, <1>16, <1>17

WithStock(A, k, q, t) == [A EXCEPT !.blocks[k].cache = q, !.total = t]

StockedWith(A, G, k, q, t) == Stocked(A, G, k, t) /\ G.blocks[k].cache = q

LEMMA StockFields ==
    ASSUME NEW A \in CacheRec, NEW k \in Block,
           NEW q \in [1 .. k_capacity -> Object \cup {NullOffset}], NEW t \in Int
    PROVE  StockedWith(A, WithStock(A, k, q, t), k, q, t)
<1>1. PICK B \in [Block -> BlockRec] : B = A.blocks
  BY Zenon, CacheFields
<1>2. PICK r \in BlockRec : r = B[k]
  BY Zenon 
<1> DEFINE e == [r EXCEPT !.cache = q]
           C == [B EXCEPT ![k] = e]
           E == [A EXCEPT !.blocks = C, !.total = t]
<1>3. WithStock(A, k, q, t) = E
  BY Zenon, <1>1, <1>2 DEF WithStock, CacheRec
<1>4. /\ e \in BlockRec /\ e.cache = q /\ e.bin_no = r.bin_no /\ e.older = r.older
      /\ e.newer = r.newer /\ e.bin_older = r.bin_older /\ e.bin_newer = r.bin_newer
  BY Zenon DEF BlockRec
<1> HIDE DEF e
<1>5. C \in [Block -> BlockRec] /\ C[k] = e /\ \A x \in Block \ {k} : C[x] = B[x]
  BY Zenon, <1>4
<1> HIDE DEF C
<1>6. /\ E \in CacheRec /\ E.blocks = C /\ E.bins = A.bins /\ E.total = t
      /\ E.m_blocks = A.m_blocks /\ E.uninit_top = A.uninit_top
      /\ E.oldest = A.oldest /\ E.newest = A.newest
  BY Zenon, <1>5 DEF CacheRec
<1> HIDE DEF E
<1>7. \A x \in Block : /\ C[x].bin_no = B[x].bin_no
                       /\ C[x].older = B[x].older /\ C[x].newer = B[x].newer
                       /\ C[x].bin_older = B[x].bin_older
                       /\ C[x].bin_newer = B[x].bin_newer
  BY Zenon, <1>2, <1>4, <1>5
<1>8. SameLinks(A, E)
  BY ZenonT(60), <1>1, <1>6, <1>7 DEF SameLinks
<1>9. \A x \in Block \ {k} : E.blocks[x].cache = A.blocks[x].cache
  BY Zenon, <1>1, <1>5, <1>6
<1>10. StockedWith(A, E, k, q, t)
  BY ZenonT(60), <1>4, <1>5, <1>6, <1>8, <1>9 DEF Stocked, StockedWith
<1> QED BY Zenon, <1>3, <1>10

\* The answers of the allocator.
LEMMA BatchesAre ==
    ASSUME NEW b \in Bins, NEW s \in Batches(b)
    PROVE  /\ DOMAIN s \subseteq 1 .. BatchSize[b]
           /\ \A i \in DOMAIN s : s[i] \in free /\ s[i] \in Object
           /\ \A i, j \in DOMAIN s : s[i] = s[j] => i = j
<1>1. /\ s \in UNION {[1 .. n -> free \cap ObjectsOf(b)] : n \in 0 .. BatchSize[b]}
      /\ \A i, j \in DOMAIN s : s[i] = s[j] => i = j
  BY Zenon DEF Batches
<1>2. PICK n \in 0 .. BatchSize[b] : s \in [1 .. n -> free \cap ObjectsOf(b)]
  BY Zenon, <1>1
<1>3. DOMAIN s = 1 .. n /\ \A i \in 1 .. n : s[i] \in free \cap ObjectsOf(b)
  BY Zenon, <1>2
<1>4. 1 .. n \subseteq 1 .. BatchSize[b]
  BY SizeTypes
<1> QED BY Zenon, <1>1, <1>3, <1>4 DEF ObjectsOf

\* A new block with the objects of s.
WithBatch(K, b, s) ==
    LET A == AddBlock(K, b, BatchSize[b])
    IN  [A EXCEPT !.blocks[A.newest].cache =
                     [i \in 1 .. k_capacity |-> IF i \in DOMAIN s THEN s[i] ELSE NullOffset],
                  !.total = @ + BatchBytes(b)]

\* The cache G holds what K does, and the objects of s in block k, the active one of
\* bin b.
Filled(K, G, b, s, k) ==
    /\ Sound(G)
    /\ k \in Block \ InUse(K)
    /\ G.bins[b] = [active |-> k, size |-> BatchSize[b]]
    /\ \A x : x # k => \A i, o : Holds(G, x, i, o) <=> Holds(K, x, i, o)
    /\ \A i, o : Holds(G, k, i, o) <=> i \in DOMAIN s /\ s[i] = o

LEMMA FillSound ==
    ASSUME NEW K, Sound(K), NEW b \in Bins, K.bins[b] = NoActive,
           ~NeedsRoom(K, BatchSize[b] * ObjectSize[b]), NEW s,
           DOMAIN s \subseteq 1 .. BatchSize[b], \A i \in DOMAIN s : s[i] \in Object
    PROVE  Filled(K, WithBatch(K, b, s), b, s, FreeBlock(K))
<1>1. PICK k : k = FreeBlock(K)
  OBVIOUS
<1>2. K \in CacheRec /\ K.total \in Int /\ ~NoFreeBlock(K)
  BY Zenon, CacheFields DEF Sound, NeedsRoom
<1>3. PICK n \in 1 .. k_capacity : n = BatchSize[b]
  BY Zenon, SizeTypes
<1>4. n \in 0 .. k_capacity /\ 1 .. n \subseteq 1 .. k_capacity
  BY SizeTypes
<1>5. PICK t \in Int : t = K.total + n * ObjectSize[b] /\ t <= MaxCacheSize
  <2>1. n \in Int /\ ObjectSize[b] \in Int
    BY SizeTypes
  <2>2. n * ObjectSize[b] \in Int
    BY <2>1
  <2>3. ~(K.total + n * ObjectSize[b] > MaxCacheSize)
    BY Zenon, <1>3 DEF NeedsRoom
  <2>4. PICK p \in Int : p = n * ObjectSize[b]
    BY Zenon, <2>2
  <2>5. K.total + p \in Int /\ K.total + p <= MaxCacheSize
    BY <1>2, <2>3, <2>4, SizeTypes
  <2> QED BY Zenon, <2>4, <2>5
<1>6. K.bins[b].active = Nil
  BY DEF NoActive
<1>7. PICK A : A = AddBlock(K, b, n)
  OBVIOUS
<1>8. A \in CacheRec /\ A.total = K.total /\ A.newest = k /\ k \in Block
  <2>1. PICK F, ord : Linked(K, InUse(K), F, ord)
    BY Zenon DEF Sound
  <2>2. Added(K, AddBlock(K, b, n), b, n, FreeBlock(K), InUse(K), F, ord)
    BY ZenonT(60), <1>2, <1>4, <1>6, <2>1, AddEffect
  <2> QED BY Zenon, <1>1, <1>7, <2>2 DEF Added
<1>9. PICK q \in [1 .. k_capacity -> Object \cup {NullOffset}] :
           q = [i \in 1 .. k_capacity |-> IF i \in DOMAIN s THEN s[i] ELSE NullOffset]
  BY Zenon 
<1>10. PICK G : G = WithStock(A, k, q, t)
  OBVIOUS
<1>11. WithBatch(K, b, s) = G
  BY ZenonT(60), <1>3, <1>5, <1>7, <1>8, <1>9, <1>10 DEF WithBatch, BatchBytes, WithStock
<1>12. Stocked(A, G, k, t) /\ G.blocks[k].cache = q
  <2>1. StockedWith(A, G, k, q, t)
    BY Zenon, <1>8, <1>10, StockFields
  <2> QED BY ZenonT(60), <2>1 DEF StockedWith
<1>13. /\ Sound(G)
       /\ k \in Block \ InUse(K)
       /\ G.bins[b] = [active |-> k, size |-> n]
       /\ \A x : x # k => \A i, o : Holds(G, x, i, o) <=> Holds(K, x, i, o)
       /\ k \in InUse(G) /\ NumObjects(G, k) = n
  <2>1. Stocked(AddBlock(K, b, n), G, FreeBlock(K), t)
    BY Zenon, <1>1, <1>7, <1>12
  <2>2. AddedTo(K, G, b, n, FreeBlock(K))
    BY ZenonT(60), <1>2, <1>4, <1>5, <1>6, <2>1, AddSound
  <2> QED BY Zenon, <1>1, <2>2 DEF AddedTo
<1>14. ASSUME NEW i, NEW o
       PROVE  Holds(G, k, i, o) <=> i \in DOMAIN s /\ s[i] = o
  <2>1. Holds(G, k, i, o) <=> i \in 1 .. n /\ q[i] = o /\ o \in Object
    BY Zenon, <1>12, <1>13 DEF Holds
  <2>2. i \in 1 .. n => q[i] = IF i \in DOMAIN s THEN s[i] ELSE NullOffset
    BY Zenon, <1>4, <1>9
  <2> QED BY ZenonT(60), <1>3, <2>1, <2>2, NullIsNoObject
<1> QED BY ZenonT(60), <1>1, <1>3, <1>11, <1>13, <1>14 DEF Filled

\* The block that a pushed object is stored in: a new one if there is none with room.
Roomy(K, b) == IF NeedsBlock(K.bins[b]) THEN AddBlock(K, b, 0) ELSE K

LEMMA RoomySound ==
    ASSUME NEW K, Sound(K), NEW b \in Bins, ~NoFreeBlock(K)
    PROVE  /\ SameContents(K, Roomy(K, b))
           /\ Roomy(K, b).bins[b].active # Nil /\ Roomy(K, b).bins[b].size # k_capacity
           /\ Roomy(K, b).total = K.total
<1>1. K \in CacheRec /\ K.total \in Int /\ K.total <= MaxCacheSize
  BY Zenon, CacheFields DEF Sound
<1>2. CASE NeedsBlock(K.bins[b])
  <2>1. K.bins[b].active # Nil => K.bins[b].size = k_capacity
    BY Zenon, <1>2 DEF NeedsBlock
  <2>2. PICK A : A = AddBlock(K, b, 0)
    OBVIOUS
  <2>3. 0 \in 0 .. k_capacity /\ 0 # k_capacity
    BY SizeTypes
  <2>4. A \in CacheRec /\ A.total = K.total
    <3>1. PICK F, ord : Linked(K, InUse(K), F, ord)
      BY Zenon DEF Sound
    <3>2. Added(K, AddBlock(K, b, 0), b, 0, FreeBlock(K), InUse(K), F, ord)
      BY ZenonT(60), <1>1, <2>1, <2>3, <3>1, AddEffect
    <3> QED BY Zenon, <2>2, <3>2 DEF Added
  <2>5. Stocked(AddBlock(K, b, 0), A, FreeBlock(K), K.total)
    BY Zenon, <2>2, <2>4 DEF Stocked, SameLinks
  <2>6. K.total = K.total + 0 * ObjectSize[b]
    <3>1. ObjectSize[b] \in Int
      BY SizeTypes
    <3> QED BY <1>1, <3>1
  <2>7. PICK k : k = FreeBlock(K)
    OBVIOUS
  <2>8. /\ Sound(A)
        /\ k \in Block \ InUse(K)
        /\ A.bins[b] = [active |-> k, size |-> 0]
        /\ \A x : x # k => \A i, o : Holds(A, x, i, o) <=> Holds(K, x, i, o)
        /\ k \in InUse(A) /\ NumObjects(A, k) = 0
    <3>1. AddedTo(K, A, b, 0, FreeBlock(K))
      BY ZenonT(60), <1>1, <2>1, <2>3, <2>5, <2>6, AddSound
    <3> QED BY Zenon, <2>7, <3>1 DEF AddedTo
  <2>9. \A i, o : ~Holds(A, k, i, o) /\ ~Holds(K, k, i, o)
    <3>1. \A i : i \notin 1 .. 0
      OBVIOUS
    <3> QED BY ZenonT(60), <2>8, <3>1 DEF Holds
  <2>10. SameContents(K, A)
    BY Zenon, <2>8, <2>9 DEF SameContents
  <2>11. A.bins[b].active = k /\ A.bins[b].size = 0
    BY <2>8
  <2>12. A = Roomy(K, b)
    BY Zenon, <1>2, <2>2 DEF Roomy
  <2> QED BY ZenonT(60), <2>3, <2>4, <2>8, <2>10, <2>11, <2>12, NilIsNoBlock
<1>3. CASE ~NeedsBlock(K.bins[b])
  BY Zenon, <1>3 DEF Roomy, NeedsBlock, SameContents
<1> QED BY Zenon, <1>2, <1>3

\* The cache A with object o behind the last entry of the active block of bin b.
WithObject(A, b, o) ==
    LET h == A.bins[b]
    IN  [A EXCEPT !.blocks[h.active].cache[h.size + 1] = o,
                  !.bins[b].size = h.size + 1,
                  !.total = @ + ObjectSize[b]]

\* The cache G holds what K does, and object o in entry n of block k.
Stored(K, G, k, n, o) ==
    /\ Sound(G)
    /\ \A x, i, p : Holds(G, x, i, p) <=> Holds(K, x, i, p) \/ (x = k /\ i = n /\ p = o)

LEMMA StoreSound ==
    ASSUME NEW K, Sound(K), NEW b \in Bins, K.bins[b].active # Nil,
           K.bins[b].size # k_capacity, K.total + ObjectSize[b] <= MaxCacheSize,
           NEW o \in Object
    PROVE  Stored(K, WithObject(K, b, o), K.bins[b].active, K.bins[b].size + 1, o)
<1>1. K \in CacheRec /\ K.total \in Int
  BY Zenon, CacheFields DEF Sound
<1>2. PICK k \in Block : k = K.bins[b].active /\ k \in InUse(K)
  BY Zenon, ActiveInUse
<1>3. NumObjects(K, k) = K.bins[b].size
  BY Zenon, <1>2, ActiveInUse
<1>4. PICK s \in 0 .. k_capacity : s = K.bins[b].size /\ s # k_capacity
  BY Zenon, <1>1, HeaderFields
<1>5. PICK n \in 1 .. k_capacity : n = s + 1
  <2>1. \A m \in 0 .. k_capacity : m # k_capacity => m + 1 \in 1 .. k_capacity
    BY SizeTypes
  <2> QED BY Zenon, <1>4, <2>1
<1>6. s \in Int /\ n \in 0 .. k_capacity /\ n \in 1 .. n /\ 1 .. s = 1 .. n \ {n}
  <2>1. s \in Int /\ s >= 0 /\ n \in 0 .. k_capacity
    BY SizeTypes
  <2>2. n \in 1 .. n /\ 1 .. s = 1 .. n \ {n}
    BY <1>5, <2>1
  <2> QED BY Zenon, <2>1, <2>2
<1>7. PICK z \in Nat : z = ObjectSize[b] /\ z \in Int
  BY SizeTypes
<1>8. PICK t \in Int : t = K.total + z
  BY <1>1, <1>7
<1>9. t = K.total + (n - s) * z
  <2>1. n - s = 1
    BY <1>5, <1>6
  <2>2. 1 * z = z
    BY <1>7
  <2> QED BY ZenonT(60), <1>8, <2>1, <2>2
<1>10. PICK G : G = WithEntry(K, b, k, n, o, n, t)
  OBVIOUS
<1>11. WithObject(K, b, o) = G
  BY ZenonT(60), <1>2, <1>4, <1>5, <1>7, <1>8, <1>10 DEF WithObject, WithEntry
<1>12. o \in Object \cup {NullOffset}
  OBVIOUS
<1>13. Entered(K, G, b, k, n, o, n, t)
  BY ZenonT(60), <1>1, <1>6, <1>10, <1>12, EntryFields
<1>14. t <= MaxCacheSize /\ t = K.total + (n - K.bins[b].size) * ObjectSize[b] /\ k # Nil
  BY ZenonT(60), <1>2, <1>4, <1>7, <1>8, <1>9
<1>15. EntrySet(K, G, k, n, o, n)
  BY ZenonT(60), <1>2, <1>6, <1>12, <1>13, <1>14, EntrySound
<1>16. /\ Sound(G)
       /\ \A x : x # k => \A j, p : Holds(G, x, j, p) <=> Holds(K, x, j, p)
       /\ \A j, p : Holds(G, k, j, p) <=>
                       /\ j \in 1 .. n /\ p \in Object
                       /\ p = IF j = n THEN o ELSE K.blocks[k].cache[j]
  BY Zenon, <1>15 DEF EntrySet
<1>17. ASSUME NEW x, NEW i, NEW p
       PROVE  Holds(G, x, i, p) <=> Holds(K, x, i, p) \/ (x = k /\ i = n /\ p = o)
  <2>1. CASE x = k
    <3>1. Holds(K, k, i, p) <=> i \in 1 .. s /\ p \in Object /\ p = K.blocks[k].cache[i]
      BY ZenonT(60), <1>2, <1>3, <1>4 DEF Holds
    <3>2. i \in 1 .. s <=> i \in 1 .. n /\ i # n
      BY Zenon, <1>6
    <3>3. Holds(G, k, i, p) <=> /\ i \in 1 .. n /\ p \in Object
                                /\ p = IF i = n THEN o ELSE K.blocks[k].cache[i]
      BY Zenon, <1>16
    <3>4. CASE i = n
      BY ZenonT(60), <1>6, <2>1, <3>1, <3>2, <3>3, <3>4
    <3>5. CASE i # n
      BY ZenonT(60), <2>1, <3>1, <3>2, <3>3, <3>5
    <3> QED BY Zenon, <3>4, <3>5
  <2>2. CASE x # k
    BY Zenon, <1>16, <2>2
  <2> QED BY Zenon, <2>1, <2>2
<1>18. Stored(K, G, k, n, o)
  BY Zenon, <1>16, <1>17 DEF Stored
<1> QED BY ZenonT(60), <1>2, <1>4, <1>5, <1>11, <1>18

-----------------------------------------------------------------------------
(* Where the objects are: C are the caches, P the calls in progress, f the free *)
(* objects and l those of clients.                                              *)

HoldsIn(C, c, k, i, o) == c \in Caches /\ Holds(C[c], k, i, o)

Pushes(P, c, o) == c \in Caches /\ P[c].name = "push" /\ P[c].obj = o

CachedAll(C) == {o \in Object : \E c, k, i : HoldsIn(C, c, k, i, o)}

PushedAll(P) == {o \in Object : \E c : Pushes(P, c, o)}

\* Every object is in one place at most.
PushedAway(P, f, l) == \A c, o : Pushes(P, c, o) => o \in Object /\ o \notin f /\ o \notin l

OnePusher(P) == \A c, d, o : Pushes(P, c, o) /\ Pushes(P, d, o) => c = d

HeldAway(C, P, f, l) ==
    \A c, k, i, o : HoldsIn(C, c, k, i, o) => /\ o \in Object /\ o \notin f /\ o \notin l
                                              /\ \A d : ~Pushes(P, d, o)

OneHolder(C) ==
    \A c, k, i, d, m, j, o : HoldsIn(C, c, k, i, o) /\ HoldsIn(C, d, m, j, o)
                                => c = d /\ k = m /\ i = j

Placed(C, P, f, l) ==
    /\ f \subseteq Object /\ l \subseteq Object /\ \A o \in f : o \notin l
    /\ PushedAway(P, f, l) /\ OnePusher(P) /\ HeldAway(C, P, f, l) /\ OneHolder(C)

SamePlaces(C, D) == \A c, k, i, o : HoldsIn(D, c, k, i, o) <=> HoldsIn(C, c, k, i, o)

SamePushes(P, Q) == \A c, o : Pushes(Q, c, o) <=> Pushes(P, c, o)

LEMMA PlacedSame ==
    ASSUME NEW C, NEW P, NEW f, NEW l, Placed(C, P, f, l), NEW D, NEW Q,
           SamePlaces(C, D), SamePushes(P, Q)
    PROVE  /\ Placed(D, Q, f, l)
           /\ CachedAll(D) = CachedAll(C) /\ PushedAll(Q) = PushedAll(P)
<1>1. CachedAll(D) = CachedAll(C)
  BY Zenon DEF CachedAll, SamePlaces
<1>2. PushedAll(Q) = PushedAll(P)
  BY Zenon DEF PushedAll, SamePushes
<1>3. PushedAway(Q, f, l) /\ OnePusher(Q)
  BY Zenon DEF Placed, PushedAway, OnePusher, SamePushes
<1>4. HeldAway(D, Q, f, l)
  BY Zenon DEF Placed, HeldAway, SamePlaces, SamePushes
<1>5. OneHolder(D)
  <2>1. OneHolder(C) /\ \A c, k, i, o : HoldsIn(D, c, k, i, o) => HoldsIn(C, c, k, i, o)
    BY Zenon DEF Placed, SamePlaces
  <2> QED BY SMT, <2>1 DEF OneHolder
<1>6. Placed(D, Q, f, l)
  BY Zenon, <1>3, <1>4, <1>5 DEF Placed
<1> QED BY Zenon, <1>1, <1>2, <1>6

\* The object o leaves its place for a client, unless it is null.
TakenFrom(C, D, c, k, s, o) ==
    /\ o \in Object \cup {NullOffset}
    /\ o \in Object => HoldsIn(C, c, k, s, o)
    /\ \A p : HoldsIn(C, c, k, s, p) => p = o
    /\ \A d, x, i, p : HoldsIn(D, d, x, i, p) <=>
                          HoldsIn(C, d, x, i, p) /\ ~(d = c /\ x = k /\ i = s)

HandedOut(C, P, D, Q, f, l, o) ==
    /\ Placed(D, Q, f, l \cup ({o} \ {NullOffset}))
    /\ CachedAll(D) = CachedAll(C) \ ({o} \ {NullOffset})
    /\ o \in Object => o \in CachedAll(C)
    /\ PushedAll(Q) = PushedAll(P)

LEMMA PlacedTake ==
    ASSUME NEW C, NEW P, NEW f, NEW l, Placed(C, P, f, l), NEW D,
           NEW c, NEW k, NEW s, NEW o, TakenFrom(C, D, c, k, s, o),
           NEW Q, SamePushes(P, Q)
    PROVE  HandedOut(C, P, D, Q, f, l, o)
<1>1. PICK m : m = l \cup ({o} \ {NullOffset})
  BY Zenon 
<1>2. \A p : p \in m <=> p \in l \/ (p = o /\ p # NullOffset)
  BY Zenon, <1>1
<1>3. \A p : p = o /\ p # NullOffset => p \in Object /\ HoldsIn(C, c, k, s, p)
  BY Zenon DEF TakenFrom
<1>4. /\ f \subseteq Object /\ m \subseteq Object
      /\ \A p \in f : p \notin m
  BY SMT, <1>2, <1>3 DEF Placed, HeldAway
<1>5. PushedAway(Q, f, m)
  <2>1. ASSUME NEW d, NEW p, Pushes(Q, d, p)
        PROVE  p \in Object /\ p \notin f /\ p \notin m
    <3>1. Pushes(P, d, p)
      BY Zenon, <2>1 DEF SamePushes
    <3>2. p \in Object /\ p \notin f /\ p \notin l
      BY Zenon, <3>1 DEF Placed, PushedAway
    <3>3. ~HoldsIn(C, c, k, s, p)
      BY Zenon, <3>1 DEF Placed, HeldAway
    <3> QED BY SMT, <1>2, <1>3, <3>2, <3>3
  <2> QED BY Zenon, <2>1 DEF PushedAway
<1>6. OnePusher(Q)
  BY Zenon DEF Placed, OnePusher, SamePushes
<1>7. HeldAway(D, Q, f, m)
  <2>1. ASSUME NEW d, NEW x, NEW i, NEW p, HoldsIn(D, d, x, i, p)
        PROVE  /\ p \in Object /\ p \notin f /\ p \notin m
               /\ \A e : ~Pushes(Q, e, p)
    <3>1. HoldsIn(C, d, x, i, p) /\ ~(d = c /\ x = k /\ i = s)
      BY Zenon, <2>1 DEF TakenFrom
    <3>2. p # o \/ p = NullOffset
      BY Zenon, <1>3, <3>1 DEF Placed, OneHolder
    <3>3. /\ p \in Object /\ p \notin f /\ p \notin l
          /\ \A e : ~Pushes(P, e, p)
      BY Zenon, <3>1 DEF Placed, HeldAway
    <3> QED BY Zenon, <1>2, <3>2, <3>3 DEF SamePushes
  <2> QED BY Zenon, <2>1 DEF HeldAway
<1>8. OneHolder(D)
  <2>1. OneHolder(C) /\ \A d, x, i, p : HoldsIn(D, d, x, i, p) => HoldsIn(C, d, x, i, p)
    BY Zenon DEF Placed, TakenFrom
  <2> QED BY SMT, <2>1 DEF OneHolder
<1>9. Placed(D, Q, f, m)
  BY ZenonT(60), <1>4, <1>5, <1>6, <1>7, <1>8 DEF Placed
<1>10. ASSUME NEW p \in Object
       PROVE  (\E d, x, i : HoldsIn(D, d, x, i, p)) <=>
                 (\E d, x, i : HoldsIn(C, d, x, i, p)) /\ p \notin {o} \ {NullOffset}
  <2>1. ASSUME NEW d, NEW x, NEW i, HoldsIn(D, d, x, i, p)
        PROVE  HoldsIn(C, d, x, i, p) /\ p \notin {o} \ {NullOffset}
    <3>1. HoldsIn(C, d, x, i, p) /\ ~(d = c /\ x = k /\ i = s)
      BY Zenon, <2>1 DEF TakenFrom
    <3> QED BY Zenon, <1>3, <3>1 DEF Placed, OneHolder
  <2>2. ASSUME NEW d, NEW x, NEW i, HoldsIn(C, d, x, i, p), p \notin {o} \ {NullOffset}
        PROVE  HoldsIn(D, d, x, i, p)
    BY Zenon, <2>2, NullIsNoObject DEF TakenFrom
  <2> QED BY Zenon, <2>1, <2>2
<1>11. CachedAll(D) = CachedAll(C) \ ({o} \ {NullOffset})
  BY Zenon, <1>10 DEF CachedAll
<1>12. o \in Object => o \in CachedAll(C)
  BY Zenon DEF CachedAll, TakenFrom
<1>13. PushedAll(Q) = PushedAll(P)
  BY Zenon DEF PushedAll, SamePushes
<1> QED BY ZenonT(60), <1>1, <1>9, <1>11, <1>12, <1>13 DEF HandedOut

\* The objects S leave the caches.
ReleasedFrom(C, D, S) ==
    /\ \A d, x, i, p : HoldsIn(D, d, x, i, p) <=> HoldsIn(C, d, x, i, p) /\ p \notin S
    /\ \A p \in S : \E d, x, i : HoldsIn(C, d, x, i, p)

LEMMA PlacedRelease ==
    ASSUME NEW C, NEW P, NEW f, NEW l, Placed(C, P, f, l), NEW D, NEW S, ReleasedFrom(C, D, S)
    PROVE  /\ Placed(D, P, f \cup S, l)
           /\ CachedAll(D) = CachedAll(C) \ S
           /\ S \subseteq CachedAll(C)
<1>1. PICK g : g = f \cup S
  BY Zenon 
<1>2. \A p : p \in g <=> p \in f \/ p \in S
  BY Zenon, <1>1
<1>3. \A p \in S : p \in Object /\ p \notin l /\ \A d : ~Pushes(P, d, p)
  BY Zenon DEF Placed, HeldAway, ReleasedFrom
<1>4. g \subseteq Object /\ l \subseteq Object /\ \A p \in g : p \notin l
  BY Zenon, <1>2, <1>3 DEF Placed
<1>5. PushedAway(P, g, l)
  <2>1. PushedAway(P, f, l)
    BY Zenon DEF Placed
  <2> QED BY ZenonT(60), <1>2, <1>3, <2>1 DEF PushedAway
<1>6. HeldAway(D, P, g, l)
  <2>1. HeldAway(C, P, f, l)
    BY Zenon DEF Placed
  <2>2. \A d, x, i, p : HoldsIn(D, d, x, i, p) => HoldsIn(C, d, x, i, p) /\ p \notin S
    BY Zenon DEF ReleasedFrom
  <2> QED BY ZenonT(60), <1>2, <2>1, <2>2 DEF HeldAway
<1>7. OneHolder(D)
  <2>1. OneHolder(C) /\ \A d, x, i, p : HoldsIn(D, d, x, i, p) => HoldsIn(C, d, x, i, p)
    BY Zenon DEF Placed, ReleasedFrom
  <2> QED BY SMT, <2>1 DEF OneHolder
<1>8. Placed(D, P, g, l)
  BY Zenon, <1>4, <1>5, <1>6, <1>7 DEF Placed
<1>9. CachedAll(D) = CachedAll(C) \ S
  BY Zenon DEF CachedAll, ReleasedFrom
<1>10. S \subseteq CachedAll(C)
  BY Zenon, <1>3 DEF CachedAll, ReleasedFrom
<1> QED BY ZenonT(60), <1>1, <1>8, <1>9, <1>10

\* The objects of s enter block k of cache c.
RefilledAt(C, D, c, k, s) ==
    /\ c \in Caches
    /\ \A d, x, i, p : HoldsIn(D, d, x, i, p) <=>
                          \/ HoldsIn(C, d, x, i, p)
                          \/ d = c /\ x = k /\ i \in DOMAIN s /\ s[i] = p
    /\ \A i, j \in DOMAIN s : s[i] = s[j] => i = j

LEMMA PlacedRefill ==
    ASSUME NEW C, NEW P, NEW f, NEW l, Placed(C, P, f, l), NEW D, NEW c, NEW k, NEW s,
           RefilledAt(C, D, c, k, s), \A i \in DOMAIN s : s[i] \in f
    PROVE  /\ Placed(D, P, f \ Range(s), l)
           /\ CachedAll(D) = CachedAll(C) \cup Range(s)
           /\ Range(s) \subseteq f
<1>1. PICK g : g = f \ Range(s)
  BY Zenon 
<1>2. \A p : p \in Range(s) <=> \E i \in DOMAIN s : s[i] = p
  BY Zenon DEF Range
<1>3. \A p : p \in g <=> p \in f /\ p \notin Range(s)
  BY Zenon, <1>1
<1>4. g \subseteq Object /\ l \subseteq Object /\ \A p \in g : p \notin l
  BY Zenon, <1>3 DEF Placed
<1>5. PushedAway(P, g, l)
  <2>1. PushedAway(P, f, l)
    BY Zenon DEF Placed
  <2> QED BY Zenon, <1>3, <2>1 DEF PushedAway
<1>6. ASSUME NEW d, NEW x, NEW i, NEW p, HoldsIn(D, d, x, i, p)
      PROVE  HoldsIn(C, d, x, i, p) \/ (d = c /\ x = k /\ i \in DOMAIN s /\ s[i] = p)
  BY Zenon, <1>6 DEF RefilledAt
<1>7. \A i \in DOMAIN s : /\ s[i] \in Object /\ s[i] \notin g /\ s[i] \notin l
                          /\ \A d : ~Pushes(P, d, s[i])
                          /\ \A d, x, j : ~HoldsIn(C, d, x, j, s[i])
  <2> SUFFICES ASSUME NEW i \in DOMAIN s
               PROVE  /\ s[i] \in Object /\ s[i] \notin g /\ s[i] \notin l
                      /\ \A d : ~Pushes(P, d, s[i])
                      /\ \A d, x, j : ~HoldsIn(C, d, x, j, s[i])
    BY Zenon 
  <2>1. PICK p : p = s[i]
    BY Zenon 
  <2>2. p \in f /\ p \in Range(s)
    BY Zenon, <1>2, <2>1
  <2>3. p \in Object /\ p \notin l /\ p \notin g
    BY Zenon, <1>3, <2>2 DEF Placed
  <2>4. \A d : ~Pushes(P, d, p)
    BY Zenon, <2>2 DEF Placed, PushedAway
  <2>5. \A d, x, j : ~HoldsIn(C, d, x, j, p)
    BY ZenonT(60), <2>2 DEF Placed, HeldAway
  <2> QED BY ZenonT(60), <2>1, <2>3, <2>4, <2>5
<1>8. HeldAway(D, P, g, l)
  <2>1. HeldAway(C, P, f, l)
    BY Zenon DEF Placed
  <2> QED BY SMT, <1>3, <1>6, <1>7, <2>1 DEF HeldAway
<1>9. OneHolder(D)
  <2>1. ASSUME NEW d, NEW x, NEW i, NEW e, NEW y, NEW j, NEW p,
               HoldsIn(D, d, x, i, p), HoldsIn(D, e, y, j, p)
        PROVE  d = e /\ x = y /\ i = j
    <3>1. CASE HoldsIn(C, d, x, i, p) /\ HoldsIn(C, e, y, j, p)
      BY Zenon, <3>1 DEF Placed, OneHolder
    <3>2. CASE ~HoldsIn(C, d, x, i, p)
      <4>1. d = c /\ x = k /\ i \in DOMAIN s /\ s[i] = p
        BY ZenonT(60), <1>6, <2>1, <3>2
      <4>2. e = c /\ y = k /\ j \in DOMAIN s /\ s[j] = p
        BY ZenonT(60), <1>6, <1>7, <2>1, <4>1
      <4> QED BY Zenon, <4>1, <4>2 DEF RefilledAt
    <3>3. CASE ~HoldsIn(C, e, y, j, p)
      <4>1. e = c /\ y = k /\ j \in DOMAIN s /\ s[j] = p
        BY ZenonT(60), <1>6, <2>1, <3>3
      <4>2. d = c /\ x = k /\ i \in DOMAIN s /\ s[i] = p
        BY ZenonT(60), <1>6, <1>7, <2>1, <4>1
      <4> QED BY Zenon, <4>1, <4>2 DEF RefilledAt
    <3> QED BY Zenon, <3>1, <3>2, <3>3
  <2> QED BY ZenonT(60), <2>1 DEF OneHolder
<1>10. Placed(D, P, g, l)
  BY ZenonT(60), <1>4, <1>5, <1>8, <1>9 DEF Placed
<1>11. CachedAll(D) = CachedAll(C) \cup Range(s)
  <2>1. ASSUME NEW p \in Object
        PROVE  (\E d, x, i : HoldsIn(D, d, x, i, p)) <=>
                  (\E d, x, i : HoldsIn(C, d, x, i, p)) \/ p \in Range(s)
    <3>1. ASSUME p \in Range(s)
          PROVE  \E d, x, i : HoldsIn(D, d, x, i, p)
      <4>1. PICK i \in DOMAIN s : s[i] = p
        BY Zenon, <1>2, <3>1
      <4>2. HoldsIn(D, c, k, i, p)
        BY Zenon, <4>1 DEF RefilledAt
      <4> QED BY Zenon, <4>2
    <3>2. ASSUME NEW d, NEW x, NEW i, HoldsIn(D, d, x, i, p)
          PROVE  HoldsIn(C, d, x, i, p) \/ p \in Range(s)
      BY ZenonT(60), <1>2, <1>6, <3>2
    <3>3. ASSUME NEW d, NEW x, NEW i, HoldsIn(C, d, x, i, p)
          PROVE  HoldsIn(D, d, x, i, p)
      BY Zenon, <3>3 DEF RefilledAt
    <3> QED BY ZenonT(60), <3>1, <3>2, <3>3
  <2>2. Range(s) \subseteq Object
    BY Zenon, <1>2, <1>7
  <2> QED BY ZenonT(60), <2>1, <2>2 DEF CachedAll
<1>12. Range(s) \subseteq f
  BY Zenon, <1>2
<1> QED BY ZenonT(60), <1>1, <1>10, <1>11, <1>12

\* A client gives object o to cache c.
GivenTo(P, Q, c, o) == \A d, p : Pushes(Q, d, p) <=> Pushes(P, d, p) \/ (d = c /\ p = o)

Given(C, P, Q, f, l, o) ==
    /\ Placed(C, Q, f, l \ {o})
    /\ (l \ {o}) \cup PushedAll(Q) = l \cup PushedAll(P)

LEMMA PlacedPush ==
    ASSUME NEW C, NEW P, NEW f, NEW l, Placed(C, P, f, l), NEW c, NEW o, o \in l, NEW Q,
           GivenTo(P, Q, c, o)
    PROVE  Given(C, P, Q, f, l, o)
<1>1. PICK m : m = l \ {o}
  BY Zenon 
<1>2. \A p : p \in m <=> p \in l /\ p # o
  BY Zenon, <1>1
<1> USE DEF GivenTo
<1>3. /\ f \subseteq Object /\ l \subseteq Object /\ \A p \in f : p \notin l
      /\ PushedAway(P, f, l) /\ OnePusher(P) /\ HeldAway(C, P, f, l) /\ OneHolder(C)
      /\ o \in Object
  BY Zenon DEF Placed
<1>4. m \subseteq Object /\ \A p \in f : p \notin m
  BY Zenon, <1>2, <1>3
<1>5. PushedAway(Q, f, m)
  BY ZenonT(60), <1>2, <1>3 DEF PushedAway
<1>6. OnePusher(Q)
  <2>1. \A d : ~Pushes(P, d, o)
    BY Zenon, <1>3 DEF PushedAway
  <2> QED BY SMT, <1>3, <2>1 DEF OnePusher
<1>7. HeldAway(C, Q, f, m)
  <2>1. \A d, k, i, p : HoldsIn(C, d, k, i, p) => p # o
    BY Zenon, <1>3 DEF HeldAway
  <2> QED BY Zenon, <1>2, <1>3, <2>1 DEF HeldAway
<1>8. Placed(C, Q, f, m)
  BY ZenonT(60), <1>3, <1>4, <1>5, <1>6, <1>7 DEF Placed
<1>9. m \cup PushedAll(Q) = l \cup PushedAll(P)
  <2>1. \A p : p \in PushedAll(Q) <=> p \in PushedAll(P) \/ p = o
    BY Zenon, <1>3 DEF PushedAll
  <2> QED BY Zenon, <1>2, <2>1
<1> QED BY ZenonT(60), <1>1, <1>8, <1>9 DEF Given

\* The object that cache c was given is stored.
StoredAt(C, D, c, k, n, o) ==
    \A d, x, i, p : HoldsIn(D, d, x, i, p) <=> \/ HoldsIn(C, d, x, i, p)
                                               \/ d = c /\ x = k /\ i = n /\ p = o

PushEnds(P, Q, c) == \A d, p : Pushes(Q, d, p) <=> Pushes(P, d, p) /\ d # c

Kept(C, P, D, Q, f, l, o) ==
    /\ Placed(D, Q, f, l)
    /\ o \in Object
    /\ CachedAll(D) = CachedAll(C) \cup {o}
    /\ o \in l \cup PushedAll(P)
    /\ l \cup PushedAll(Q) = (l \cup PushedAll(P)) \ {o}

LEMMA PlacedStore ==
    ASSUME NEW C, NEW P, NEW f, NEW l, Placed(C, P, f, l), NEW c, NEW o,
           Pushes(P, c, o), NEW D, NEW k, NEW n, NEW Q,
           StoredAt(C, D, c, k, n, o), PushEnds(P, Q, c)
    PROVE  Kept(C, P, D, Q, f, l, o)
<1>1. /\ f \subseteq Object /\ l \subseteq Object /\ \A p \in f : p \notin l
      /\ PushedAway(P, f, l) /\ OnePusher(P) /\ HeldAway(C, P, f, l) /\ OneHolder(C)
  BY Zenon DEF Placed
<1> USE DEF StoredAt, PushEnds
<1>2. o \in Object /\ o \notin f /\ o \notin l
  BY Zenon, <1>1 DEF PushedAway
<1>3. /\ \A d, x, i : ~HoldsIn(C, d, x, i, o)
      /\ \A d, p : Pushes(Q, d, p) => Pushes(P, d, p) /\ p # o
  BY SMT, <1>1 DEF HeldAway, OnePusher
<1>4. PushedAway(Q, f, l) /\ OnePusher(Q)
  BY Zenon, <1>1 DEF PushedAway, OnePusher
<1>5. HeldAway(D, Q, f, l)
  BY ZenonT(60), <1>1, <1>2, <1>3 DEF HeldAway
<1>6. OneHolder(D)
  BY SMT, <1>1, <1>3 DEF OneHolder
<1>7. Placed(D, Q, f, l)
  BY ZenonT(60), <1>1, <1>4, <1>5, <1>6 DEF Placed
<1>8. CachedAll(D) = CachedAll(C) \cup {o}
  <2>1. HoldsIn(D, c, k, n, o)
    OBVIOUS
  <2>2. \A p \in Object : (\E d, x, i : HoldsIn(D, d, x, i, p)) <=>
                             (\E d, x, i : HoldsIn(C, d, x, i, p)) \/ p = o
    <3>1. \A p : p = o => \E d, x, i : HoldsIn(D, d, x, i, p)
      BY Zenon, <2>1
    <3>2. \A p, d, x, i : HoldsIn(D, d, x, i, p) => HoldsIn(C, d, x, i, p) \/ p = o
      BY SMT
    <3>3. \A p, d, x, i : HoldsIn(C, d, x, i, p) => HoldsIn(D, d, x, i, p)
      BY Zenon 
    <3> QED BY ONLY Zenon, <3>1, <3>2, <3>3
  <2> QED BY Zenon, <1>2, <2>2 DEF CachedAll
<1>9. \A p : p \in PushedAll(Q) <=> p \in PushedAll(P) /\ p # o
  <2>1. \A p, d : Pushes(P, d, p) /\ d = c => p = o
    BY Zenon DEF Pushes
  <2> QED BY Zenon, <1>3, <2>1 DEF PushedAll
<1>10. o \in PushedAll(P)
  BY Zenon, <1>2 DEF PushedAll
<1>11. l \cup PushedAll(Q) = (l \cup PushedAll(P)) \ {o}
  BY Zenon, <1>2, <1>9
<1> QED BY ZenonT(60), <1>2, <1>7, <1>8, <1>10, <1>11 DEF Kept

-----------------------------------------------------------------------------
(* The inductive invariant. *)

OpRec ==
    {Idle} \cup [name : {"fill"}, bin : Bins]
           \cup [name : {"push"}, bin : Bins, obj : Object]

\* Every cache is sound, a call that fetches a batch has left its bin without a
\* block, and every object is in one place.
CachesSound(C, P) ==
    /\ C \in [Caches -> CacheRec] /\ P \in [Caches -> OpRec]
    /\ \A c \in Caches : /\ Sound(C[c])
                         /\ P[c].name = "fill" => C[c].bins[P[c].bin] = NoActive

CacheInv == CachesSound(cache, op) /\ Placed(cache, op, free, live)

\* The steps of the pool: a are the cached objects, b those with owners.
PoolStep(a, b, f, a2, b2, f2) ==
    \/ a2 = a /\ b2 = b /\ f2 = f
    \/ \E o \in Object : o \in a /\ a2 = a \ {o} /\ b2 = b \cup {o} /\ f2 = f
    \/ \E o \in Object : o \in b /\ a2 = a \cup {o} /\ b2 = b \ {o} /\ f2 = f
    \/ \E S \in SUBSET f : \E T \in SUBSET S :
          (\A o, p \in T : o = p) /\ f2 = f \ S /\ a2 = a \cup (S \ T) /\ b2 = b \cup T
    \/ \E S \in SUBSET a : a2 = a \ S /\ f2 = f \cup S /\ b2 = b

\* The invariant holds again, and the pool took a step.
Goes == /\ CacheInv'
        /\ PoolStep(CachedAll(cache), live \cup PushedAll(op), free,
                    CachedAll(cache'), live' \cup PushedAll(op'), free')

LEMMA OpTypes ==
    /\ Idle \in OpRec /\ Idle.name = "idle"
    /\ \A b \in Bins : /\ [name |-> "fill", bin |-> b] \in OpRec
                       /\ [name |-> "fill", bin |-> b].name = "fill"
                       /\ [name |-> "fill", bin |-> b].bin = b
    /\ \A b \in Bins, o \in Object :
          /\ [name |-> "push", bin |-> b, obj |-> o] \in OpRec
          /\ [name |-> "push", bin |-> b, obj |-> o].name = "push"
          /\ [name |-> "push", bin |-> b, obj |-> o].obj = o
    /\ "idle" # "fill" /\ "idle" # "push" /\ "fill" # "push"
<1>1. "idle" # "fill" /\ "idle" # "push" /\ "fill" # "push"
  OBVIOUS
<1>2. Idle \in OpRec /\ Idle.name = "idle"
  BY Zenon DEF OpRec, Idle
<1>3. ASSUME NEW b \in Bins
      PROVE  /\ [name |-> "fill", bin |-> b] \in OpRec
             /\ [name |-> "fill", bin |-> b].name = "fill"
             /\ [name |-> "fill", bin |-> b].bin = b
  BY Zenon DEF OpRec
<1>4. ASSUME NEW b \in Bins, NEW o \in Object
      PROVE  /\ [name |-> "push", bin |-> b, obj |-> o] \in OpRec
             /\ [name |-> "push", bin |-> b, obj |-> o].name = "push"
             /\ [name |-> "push", bin |-> b, obj |-> o].obj = o
  BY Zenon DEF OpRec
<1> QED BY ZenonT(60), <1>1, <1>2, <1>3, <1>4

LEMMA OpFields ==
    ASSUME NEW p \in OpRec
    PROVE  /\ p.name = "fill" => p.bin \in Bins
           /\ p.name = "push" => p.bin \in Bins /\ p.obj \in Object
<1>1. CASE p = Idle
  BY Zenon, <1>1, OpTypes
<1>2. CASE p \in [name : {"fill"}, bin : Bins]
  BY Zenon, <1>2, OpTypes
<1>3. CASE p \in [name : {"push"}, bin : Bins, obj : Object]
  BY Zenon, <1>3, OpTypes
<1> QED BY Zenon, <1>1, <1>2, <1>3 DEF OpRec

\* What changes when one cache and its call do.
LEMMA OneCache ==
    ASSUME NEW C \in [Caches -> CacheRec], NEW c \in Caches, NEW G
    PROVE  \A d, x, i, p : HoldsIn([C EXCEPT ![c] = G], d, x, i, p) <=>
                              \/ d = c /\ Holds(G, x, i, p)
                              \/ d # c /\ HoldsIn(C, d, x, i, p)
<1>1. [C EXCEPT ![c] = G][c] = G /\ \A d \in Caches : d # c => [C EXCEPT ![c] = G][d] = C[d]
  BY Zenon 
<1> QED BY ZenonT(60), <1>1 DEF HoldsIn

LEMMA OneCall ==
    ASSUME NEW P \in [Caches -> OpRec], NEW c \in Caches, NEW r
    PROVE  \A d, p : Pushes([P EXCEPT ![c] = r], d, p) <=>
                        \/ d = c /\ r.name = "push" /\ r.obj = p
                        \/ d # c /\ Pushes(P, d, p)
<1>1. [P EXCEPT ![c] = r][c] = r /\ \A d \in Caches : d # c => [P EXCEPT ![c] = r][d] = P[d]
  BY Zenon
<1> QED BY Zenon, <1>1 DEF Pushes

LEMMA OneSound ==
    ASSUME NEW C, NEW P, CachesSound(C, P), NEW c \in Caches, NEW G, Sound(G),
           NEW r \in OpRec, r.name = "fill" => G.bins[r.bin] = NoActive
    PROVE  CachesSound([C EXCEPT ![c] = G], [P EXCEPT ![c] = r])
<1>1. G \in CacheRec /\ C \in [Caches -> CacheRec] /\ P \in [Caches -> OpRec]
  BY Zenon DEF Sound, CachesSound
<1>2. [C EXCEPT ![c] = G] \in [Caches -> CacheRec] /\ [P EXCEPT ![c] = r] \in [Caches -> OpRec]
  BY Zenon, <1>1
<1>3. ASSUME NEW d \in Caches
      PROVE  /\ Sound([C EXCEPT ![c] = G][d])
             /\ [P EXCEPT ![c] = r][d].name = "fill"
                  => [C EXCEPT ![c] = G][d].bins[[P EXCEPT ![c] = r][d].bin] = NoActive
  <2>1. CASE d = c
    <3>1. [C EXCEPT ![c] = G][d] = G /\ [P EXCEPT ![c] = r][d] = r
      BY Zenon, <1>1, <2>1
    <3> QED BY Zenon, <3>1
  <2>2. CASE d # c
    <3>1. [C EXCEPT ![c] = G][d] = C[d] /\ [P EXCEPT ![c] = r][d] = P[d]
      BY ZenonT(60), <1>1, <2>2
    <3> QED BY Zenon, <3>1 DEF CachesSound
  <2> QED BY Zenon, <2>1, <2>2
<1> QED BY Zenon, <1>2, <1>3 DEF CachesSound

LEMMA NothingTaken ==
    \A S : S \ ({NullOffset} \ {NullOffset}) = S /\ S \cup ({NullOffset} \ {NullOffset}) = S
  OBVIOUS

LEMMA OneTaken ==
    ASSUME NEW o, o # NullOffset
    PROVE  {o} \ {NullOffset} = {o}
  OBVIOUS

\* The last entry of a bin is popped from a cache that holds what K does.
LEMMA TakeStep ==
    ASSUME CacheInv, NEW c \in Caches, NEW b \in Bins, NEW D, SameContents(cache[c], D),
           D.bins[b].size # 0, op[c].name # "push",
           cache' = [cache EXCEPT ![c] = Popped(D, b)],
           live' = live \cup ({Last(D, b)} \ {NullOffset}),
           op' = [op EXCEPT ![c] = Idle], free' = free
    PROVE  Goes
<1>1. PICK o : o = Last(D, b)
  BY Zenon 
<1>2. PICK k, s : k = D.bins[b].active /\ s = D.bins[b].size
  BY Zenon 
<1>3. PICK G : G = Popped(D, b)
  BY Zenon 
<1>4. CachesSound(cache, op) /\ cache \in [Caches -> CacheRec] /\ op \in [Caches -> OpRec]
  BY Zenon DEF CacheInv, CachesSound
<1>5. Taken(D, G, k, s, o)
  BY ZenonT(60), PopSound, <1>1, <1>2, <1>3 DEF SameContents
<1>6. CachesSound(cache', op')
  BY ZenonT(60), OneSound, OpTypes, <1>3, <1>4, <1>5 DEF Taken
<1>7. \A d, x, i, p : HoldsIn(cache', d, x, i, p) <=>
                         \/ d = c /\ Holds(G, x, i, p)
                         \/ d # c /\ HoldsIn(cache, d, x, i, p)
  BY ZenonT(60), OneCache, <1>3, <1>4
<1>8. \A x, i, p : HoldsIn(cache, c, x, i, p) <=> Holds(D, x, i, p)
  BY Zenon DEF SameContents, HoldsIn
<1>9. TakenFrom(cache, cache', c, k, s, o)
  BY ZenonT(60), <1>5, <1>7, <1>8 DEF TakenFrom, Taken
<1>10. SamePushes(op, op')
  <2>1. \A d, p : Pushes(op', d, p) <=> \/ d = c /\ Idle.name = "push" /\ Idle.obj = p
                                        \/ d # c /\ Pushes(op, d, p)
    BY Zenon, OneCall, <1>4
  <2>2. \A p : ~Pushes(op, c, p)
    BY Zenon DEF Pushes
  <2> QED BY ZenonT(60), OpTypes, <2>1, <2>2 DEF SamePushes
<1>11. /\ Placed(cache', op', free, live \cup ({o} \ {NullOffset}))
       /\ CachedAll(cache') = CachedAll(cache) \ ({o} \ {NullOffset})
       /\ o \in Object => o \in CachedAll(cache)
       /\ PushedAll(op') = PushedAll(op)
  <2>1. Placed(cache, op, free, live)
    BY Zenon DEF CacheInv
  <2>2. HandedOut(cache, op, cache', op', free, live, o)
    BY ONLY ZenonT(60), PlacedTake, <1>9, <1>10, <2>1
  <2> QED BY Zenon, <2>2 DEF HandedOut
<1>12. CacheInv'
  BY ZenonT(60), <1>1, <1>6, <1>11 DEF CacheInv
<1>13. PoolStep(CachedAll(cache), live \cup PushedAll(op), free,
                CachedAll(cache'), live' \cup PushedAll(op'), free')
  <2>1. CASE o = NullOffset
    <3>1. CachedAll(cache') = CachedAll(cache) /\ live' = live
      BY ZenonT(60), NothingTaken, <1>1, <1>11, <2>1
    <3> QED BY ZenonT(60), <1>11, <3>1 DEF PoolStep
  <2>2. CASE o # NullOffset
    <3>1. o \in Object
      BY ZenonT(60), <1>5, <2>2 DEF Taken
    <3>2. CachedAll(cache') = CachedAll(cache) \ {o} /\ live' = live \cup {o}
      BY ZenonT(60), OneTaken, <1>1, <1>11, <2>2
    <3>3. live' \cup PushedAll(op') = (live \cup PushedAll(op)) \cup {o}
      BY ZenonT(60), <1>11, <3>2
    <3> QED BY ZenonT(60), <1>11, <3>1, <3>2, <3>3 DEF PoolStep
  <2> QED BY ZenonT(60), <2>1, <2>2
<1> QED BY ZenonT(60), <1>12, <1>13 DEF Goes

LEMMA PopStep ==
    ASSUME CacheInv, NEW c \in Caches, NEW b \in Bins, Pop(c, b)
    PROVE  Goes
<1>1. PICK D : D = Nonempty(cache[c], b)
  BY Zenon 
<1>2. CachesSound(cache, op) /\ cache \in [Caches -> CacheRec] /\ op \in [Caches -> OpRec]
  BY Zenon DEF CacheInv, CachesSound
<1>3. SameContents(cache[c], D) /\ (D.bins[b].size = 0 => D.bins[b] = NoActive)
  BY ZenonT(60), NonemptySound, <1>1, <1>2 DEF CachesSound
<1>4. op[c] = Idle /\ free' = free
  BY Zenon DEF Pop
<1>5. CASE D.bins[b].size = 0
  <2>1. PICK r : r = [name |-> "fill", bin |-> b]
    BY Zenon 
  <2>2. cache' = [cache EXCEPT ![c] = D] /\ op' = [op EXCEPT ![c] = r] /\ live' = live
    BY ZenonT(60), <1>1, <1>5, <2>1 DEF Pop, Nonempty
  <2>3. r \in OpRec /\ r.name = "fill" /\ r.bin = b
    BY ZenonT(60), OpTypes, <2>1
  <2>4. CachesSound(cache', op')
    BY ZenonT(60), OneSound, <1>2, <1>3, <1>5, <2>2, <2>3 DEF SameContents
  <2>5. SamePlaces(cache, cache')
    <3>1. \A d, x, i, p : HoldsIn(cache', d, x, i, p) <=>
                             \/ d = c /\ Holds(D, x, i, p)
                             \/ d # c /\ HoldsIn(cache, d, x, i, p)
      BY ZenonT(60), OneCache, <1>2, <2>2
    <3>2. \A x, i, p : HoldsIn(cache, c, x, i, p) <=> Holds(D, x, i, p)
      BY Zenon, <1>3 DEF SameContents, HoldsIn
    <3> QED BY ZenonT(60), <3>1, <3>2 DEF SamePlaces
  <2>6. SamePushes(op, op')
    <3>1. \A d, p : Pushes(op', d, p) <=> \/ d = c /\ r.name = "push" /\ r.obj = p
                                          \/ d # c /\ Pushes(op, d, p)
      BY ZenonT(60), OneCall, <1>2, <2>2
    <3>2. \A p : ~Pushes(op, c, p)
      BY ZenonT(60), OpTypes, <1>4 DEF Pushes
    <3> QED BY ZenonT(60), OpTypes, <2>3, <3>1, <3>2 DEF SamePushes
  <2>7. /\ Placed(cache', op', free, live)
        /\ CachedAll(cache') = CachedAll(cache) /\ PushedAll(op') = PushedAll(op)
    <3>1. Placed(cache, op, free, live)
      BY Zenon DEF CacheInv
    <3> QED BY ONLY PlacedSame, <2>5, <2>6, <3>1
  <2>8. CacheInv'
    BY ZenonT(60), <1>4, <2>2, <2>4, <2>7 DEF CacheInv
  <2> QED BY ZenonT(60), <1>4, <2>2, <2>7, <2>8 DEF Goes, PoolStep
<1>6. CASE D.bins[b].size # 0
  <2>1. /\ cache' = [cache EXCEPT ![c] = Popped(D, b)]
        /\ live' = live \cup ({Last(D, b)} \ {NullOffset})
        /\ op' = [op EXCEPT ![c] = Idle]
    BY Zenon, <1>1, <1>6 DEF Pop, PopEntry, Nonempty, Popped, Last
  <2>2. op[c].name # "push"
    BY Zenon, OpTypes, <1>4
  <2> QED BY ZenonT(60), TakeStep, <1>3, <1>4, <1>6, <2>1, <2>2
<1> QED BY ZenonT(60), <1>5, <1>6

LEMMA PushStep ==
    ASSUME CacheInv, NEW c \in Caches, NEW o \in live, Push(c, o)
    PROVE  Goes
<1>1. PICK r : r = [name |-> "push", bin |-> BinOf[o], obj |-> o]
  BY Zenon 
<1>2. /\ CachesSound(cache, op) /\ cache \in [Caches -> CacheRec] /\ op \in [Caches -> OpRec]
      /\ Placed(cache, op, free, live) /\ o \in Object
  BY Zenon DEF CacheInv, CachesSound, Placed
<1>3. BinOf[o] \in Bins
  BY Zenon, CacheAssumption, <1>2 DEF CacheAssumption
<1>4. r \in OpRec /\ r.name = "push" /\ r.obj = o
  BY ZenonT(60), OpTypes, <1>1, <1>2, <1>3
<1>5. /\ op[c] = Idle /\ live' = live \ {o} /\ op' = [op EXCEPT ![c] = r]
      /\ cache' = cache /\ free' = free
  BY Zenon, <1>1 DEF Push
<1>6. [cache EXCEPT ![c] = cache[c]] = cache
  BY Zenon, <1>2
<1>7. Sound(cache[c])
  BY Zenon, <1>2 DEF CachesSound
<1>8. CachesSound([cache EXCEPT ![c] = cache[c]], [op EXCEPT ![c] = r])
  BY ZenonT(60), OneSound, OpTypes, <1>2, <1>4, <1>7
<1>9. CachesSound(cache', op')
  BY ZenonT(60), <1>5, <1>6, <1>8
<1>10. GivenTo(op, op', c, o)
  <2>1. \A d, p : Pushes(op', d, p) <=> \/ d = c /\ r.name = "push" /\ r.obj = p
                                        \/ d # c /\ Pushes(op, d, p)
    BY ZenonT(60), OneCall, <1>2, <1>5
  <2>2. \A p : ~Pushes(op, c, p)
    BY Zenon, OpTypes, <1>5 DEF Pushes
  <2> QED BY ZenonT(60), <1>4, <2>1, <2>2 DEF GivenTo
<1>11. /\ Placed(cache, op', free, live \ {o})
       /\ (live \ {o}) \cup PushedAll(op') = live \cup PushedAll(op)
  <2>1. o \in live
    OBVIOUS
  <2>2. Given(cache, op, op', free, live, o)
    BY ONLY ZenonT(60), PlacedPush, <1>2, <1>10, <2>1
  <2> QED BY Zenon, <2>2 DEF Given
<1>12. CacheInv'
  BY ZenonT(60), <1>5, <1>9, <1>11 DEF CacheInv
<1> QED BY ZenonT(60), <1>5, <1>11, <1>12 DEF Goes, PoolStep

\* The objects of a block are those it holds.
LEMMA EntriesHold ==
    ASSUME NEW K, Sound(K), NEW k \in InUse(K), k \in Block
    PROVE  \A o : o \in Entries(K, k) <=> \E i : Holds(K, k, i, o)
<1>1. K \in CacheRec /\ NumObjects(K, k) \in 0 .. k_capacity
  BY ZenonT(60), BytesType DEF Sound
<1>2. \A n \in 0 .. k_capacity : \A i \in 1 .. n : i \in 1 .. k_capacity
  BY SizeTypes
<1>3. ASSUME NEW i \in 1 .. NumObjects(K, k)
      PROVE  K.blocks[k].cache[i] \in Object \cup {NullOffset}
  <2>1. i \in 1 .. k_capacity
    BY ZenonT(60), <1>1, <1>2, <1>3
  <2>2. K.blocks \in [Block -> BlockRec]
    BY ZenonT(60), CacheFields, <1>1
  <2>3. K.blocks[k] \in BlockRec
    BY Zenon, <2>2
  <2>4. K.blocks[k].cache \in [1 .. k_capacity -> Object \cup {NullOffset}]
    BY Zenon, <2>3 DEF BlockRec
  <2> QED BY ZenonT(60), <2>1, <2>4
<1>4. ASSUME NEW o
      PROVE  o \in Entries(K, k) <=> \E i : Holds(K, k, i, o)
  BY ZenonT(60), <1>3, NullIsNoObject DEF Entries, Holds
<1> QED BY Zenon, <1>4

LEMMA SizeAsked ==
    ASSUME CacheInv, NEW c \in Caches, op[c].name \in {"fill", "push"}
    PROVE  /\ op[c].bin \in Bins
           /\ NewSize(c) \in Int /\ NewSize(c) <= MaxCacheSize
           /\ op[c].name = "fill" => NewSize(c) = BatchSize[op[c].bin] * ObjectSize[op[c].bin]
           /\ op[c].name = "push" => NewSize(c) = ObjectSize[op[c].bin]
<1>1. op[c] \in OpRec
  BY Zenon DEF CacheInv, CachesSound
<1>2. op[c].bin \in Bins
  BY ZenonT(60), OpFields, <1>1
<1>3. PICK b \in Bins : b = op[c].bin
  BY Zenon, <1>2
<1>4. /\ op[c].name = "fill" => NewSize(c) = BatchSize[b] * ObjectSize[b]
      /\ op[c].name = "push" => NewSize(c) = ObjectSize[b]
  BY ZenonT(60), OpTypes, <1>3 DEF NewSize
<1>5. /\ BatchSize[b] * ObjectSize[b] \in Int /\ BatchSize[b] * ObjectSize[b] <= MaxCacheSize
      /\ ObjectSize[b] \in Int /\ ObjectSize[b] <= MaxCacheSize
  <2>1. \A n \in 1 .. k_capacity : n \in Nat
    BY SizeTypes
  <2>2. BatchSize[b] \in Nat /\ ObjectSize[b] \in Nat
    BY ZenonT(60), SizeTypes, <2>1
  <2>3. BatchSize[b] * ObjectSize[b] \in Int
    BY <2>2
  <2>4. \A x, y \in Int : x <= y /\ y <= MaxCacheSize => x <= MaxCacheSize
    BY SizeTypes
  <2>5. ObjectSize[b] \in Int
    BY <2>2
  <2> QED BY ZenonT(60), SizeTypes, <2>3, <2>4, <2>5
<1> QED BY ZenonT(60), <1>2, <1>3, <1>4, <1>5

LEMMA EvictStep ==
    ASSUME CacheInv, NEW c \in Caches, Evict(c)
    PROVE  Goes
<1>1. PICK K, k : K = cache[c] /\ k = K.oldest
  BY Zenon 
<1>2. /\ CachesSound(cache, op) /\ cache \in [Caches -> CacheRec] /\ op \in [Caches -> OpRec]
      /\ Placed(cache, op, free, live) /\ Sound(K) /\ K \in CacheRec
  BY Zenon, <1>1 DEF CacheInv, CachesSound, Sound
<1>3. PICK D : D = DropBlock(WithoutOldest(K), k)
  BY Zenon 
<1>4. /\ op[c].name \in {"fill", "push"} /\ NeedsRoom(K, NewSize(c))
      /\ free' = free \cup Entries(K, k)
      /\ cache' = [cache EXCEPT ![c] = D]
      /\ op' = op /\ live' = live
  BY ZenonT(60), <1>1, <1>3 DEF Evict, WithoutOldest
<1>5. k \in InUse(K)
  BY ZenonT(60), OldestInUse, SizeAsked, <1>1, <1>2, <1>4
<1>6. Dropped(K, WithoutOldest(K), D, k)
  BY ZenonT(60), EvictSound, <1>1, <1>2, <1>3, <1>5
<1>7. k \in Block
  <2>1. PICK F, ord : Linked(K, InUse(K), F, ord)
    BY Zenon, <1>2 DEF Sound
  <2> QED BY ZenonT(60), <1>5, <2>1 DEF Linked
<1>8. \A p : p \in Entries(K, k) <=> \E i : Holds(K, k, i, p)
  BY ZenonT(60), EntriesHold, <1>2, <1>5, <1>7
<1>9. CachesSound(cache', op')
  <2>1. op[c] \in OpRec /\ [op EXCEPT ![c] = op[c]] = op
    BY ZenonT(60), <1>2
  <2>2. ASSUME op[c].name = "fill"
        PROVE  D.bins[op[c].bin] = NoActive
    <3>1. K.bins[op[c].bin] = NoActive /\ op[c].bin \in Bins
      BY ZenonT(60), OpFields, <1>1, <1>2, <2>1, <2>2 DEF CachesSound
    <3>2. WithoutOldest(K).bins[op[c].bin] = NoActive
      BY ZenonT(60), EvictSound, <1>1, <1>2, <1>5, <3>1
    <3> QED BY ZenonT(60), <1>6, <3>2 DEF Dropped
  <2>3. CachesSound([cache EXCEPT ![c] = D], [op EXCEPT ![c] = op[c]])
    BY ZenonT(60), OneSound, <1>2, <1>6, <2>1, <2>2 DEF Dropped
  <2> QED BY ZenonT(60), <1>4, <2>1, <2>3
<1>10. ReleasedFrom(cache, cache', Entries(K, k))
  <2>1. \A d, x, i, p : HoldsIn(cache', d, x, i, p) <=>
                           \/ d = c /\ Holds(D, x, i, p)
                           \/ d # c /\ HoldsIn(cache, d, x, i, p)
    BY ZenonT(60), OneCache, <1>2, <1>4
  <2>2. \A x, i, p : HoldsIn(cache, c, x, i, p) <=> Holds(K, x, i, p)
    BY Zenon, <1>1 DEF HoldsIn
  <2>3. \A x, i, p : Holds(D, x, i, p) <=> Holds(K, x, i, p) /\ x # k
    BY Zenon, <1>6 DEF Dropped
  <2>4. \A p : p \in Entries(K, k) <=> \E i : HoldsIn(cache, c, k, i, p)
    BY Zenon, <1>8, <2>2
  <2>5. OneHolder(cache)
    BY Zenon, <1>2 DEF Placed
  <2>6. ASSUME NEW d, NEW x, NEW i, NEW p, HoldsIn(cache, d, x, i, p)
        PROVE  p \in Entries(K, k) <=> d = c /\ x = k
    <3>1. ASSUME p \in Entries(K, k)
          PROVE  d = c /\ x = k
      <4>1. PICK j : HoldsIn(cache, c, k, j, p)
        BY ZenonT(60), <2>4, <3>1
      <4> QED BY ZenonT(60), <2>5, <2>6, <4>1 DEF OneHolder
    <3>2. ASSUME d = c /\ x = k
          PROVE  p \in Entries(K, k)
      BY ZenonT(60), <2>4, <2>6, <3>2
    <3> QED BY ZenonT(60), <3>1, <3>2
  <2>7. \A d, x, i, p : HoldsIn(cache', d, x, i, p) <=>
                           HoldsIn(cache, d, x, i, p) /\ ~(d = c /\ x = k)
    BY ZenonT(60), <2>1, <2>2, <2>3
  <2>8. \A p \in Entries(K, k) : \E d, x, i : HoldsIn(cache, d, x, i, p)
    BY Zenon, <2>4
  <2> QED BY ZenonT(60), <2>6, <2>7, <2>8 DEF ReleasedFrom
<1>11. /\ Placed(cache', op, free \cup Entries(K, k), live)
       /\ CachedAll(cache') = CachedAll(cache) \ Entries(K, k)
       /\ Entries(K, k) \subseteq CachedAll(cache)
  BY ONLY ZenonT(60), PlacedRelease, <1>2, <1>10
<1>12. CacheInv'
  BY Zenon, <1>4, <1>9, <1>11 DEF CacheInv
<1> QED BY ZenonT(60), <1>4, <1>11, <1>12 DEF Goes, PoolStep

LEMMA FillStep ==
    ASSUME CacheInv, NEW c \in Caches, op[c].name = "fill",
           NEW s \in Batches(op[c].bin), Fill(c, s)
    PROVE  Goes
<1>1. /\ CachesSound(cache, op) /\ cache \in [Caches -> CacheRec] /\ op \in [Caches -> OpRec]
      /\ Placed(cache, op, free, live) /\ Sound(cache[c])
  BY Zenon DEF CacheInv, CachesSound
<1>2. op[c].bin \in Bins /\ NewSize(c) = BatchSize[op[c].bin] * ObjectSize[op[c].bin]
  BY Zenon, SizeAsked
<1>3. PICK b \in Bins : b = op[c].bin
  BY Zenon, <1>2
<1>4. PICK K, F : K = cache[c] /\ F = WithBatch(K, b, s)
  BY Zenon 
<1>5. PICK k : k = FreeBlock(K)
  BY Zenon 
<1>6. PICK o : o = Last(F, b)
  BY Zenon 
<1>7. /\ ~NeedsRoom(K, BatchSize[b] * ObjectSize[b])
      /\ free' = free \ Range(s)
      /\ cache' = [cache EXCEPT ![c] = Popped(F, b)]
      /\ live' = live \cup ({o} \ {NullOffset})
      /\ op' = [op EXCEPT ![c] = Idle]
  BY ZenonT(60), <1>2, <1>3, <1>4, <1>6 DEF Fill, PopEntry, WithBatch, Popped, Last
<1>8. /\ DOMAIN s \subseteq 1 .. BatchSize[b]
      /\ \A i \in DOMAIN s : s[i] \in free /\ s[i] \in Object
      /\ \A i, j \in DOMAIN s : s[i] = s[j] => i = j
  BY Zenon, BatchesAre, <1>3
<1>9. K.bins[b] = NoActive
  BY ZenonT(60), <1>1, <1>3, <1>4 DEF CachesSound
<1>10. Filled(K, F, b, s, k)
  BY ZenonT(60), FillSound, <1>1, <1>4, <1>5, <1>7, <1>8, <1>9
<1>11. PICK n : n = BatchSize[b]
  BY Zenon 
<1>12. F.bins[b].active = k /\ F.bins[b].size = n /\ n # 0
  <2>1. F.bins[b] = [active |-> k, size |-> n]
    BY ZenonT(60), <1>10, <1>11 DEF Filled
  <2>2. \A m \in 1 .. k_capacity : m # 0
    OBVIOUS
  <2>3. n # 0
    BY ZenonT(60), SizeTypes, <1>11, <2>2
  <2> QED BY <2>1, <2>3
<1>13. Taken(F, Popped(F, b), k, n, o)
  BY ZenonT(60), PopSound, <1>6, <1>10, <1>12 DEF Filled
<1>14. CachesSound(cache', op')
  BY ZenonT(60), OneSound, OpTypes, <1>1, <1>7, <1>13 DEF Taken
<1>15. PICK C : C = [cache EXCEPT ![c] = F]
  BY Zenon 
<1>16. \A d, x, i, p : HoldsIn(C, d, x, i, p) <=>
                          \/ d = c /\ Holds(F, x, i, p)
                          \/ d # c /\ HoldsIn(cache, d, x, i, p)
  BY ZenonT(60), OneCache, <1>1, <1>15
<1>17. \A d, x, i, p : HoldsIn(cache', d, x, i, p) <=>
                          \/ d = c /\ Holds(Popped(F, b), x, i, p)
                          \/ d # c /\ HoldsIn(cache, d, x, i, p)
  BY ZenonT(60), OneCache, <1>1, <1>7
<1>18. \A x, i, p : HoldsIn(cache, c, x, i, p) <=> Holds(K, x, i, p)
  BY Zenon, <1>4 DEF HoldsIn
<1>19. RefilledAt(cache, C, c, k, s)
  <2>1. \A i, p : ~Holds(K, k, i, p)
    BY Zenon, <1>10 DEF Filled, Holds
  <2>2. ASSUME NEW d, NEW x, NEW i, NEW p
        PROVE  HoldsIn(C, d, x, i, p) <=> \/ HoldsIn(cache, d, x, i, p)
                                          \/ d = c /\ x = k /\ i \in DOMAIN s /\ s[i] = p
    <3>1. CASE d # c
      BY ZenonT(60), <1>16, <3>1
    <3>2. CASE d = c /\ x # k
      <4>1. Holds(F, x, i, p) <=> Holds(K, x, i, p)
        BY ZenonT(60), <1>10, <3>2 DEF Filled
      <4> QED BY ZenonT(60), <1>16, <1>18, <3>2, <4>1
    <3>3. CASE d = c /\ x = k
      <4>1. Holds(F, k, i, p) <=> i \in DOMAIN s /\ s[i] = p
        BY Zenon, <1>10 DEF Filled
      <4> QED BY ZenonT(60), <1>16, <1>18, <2>1, <3>3, <4>1
    <3> QED BY ZenonT(60), <3>1, <3>2, <3>3
  <2> QED BY ZenonT(60), <1>8, <2>2 DEF RefilledAt
<1>20. /\ Placed(C, op, free \ Range(s), live)
       /\ CachedAll(C) = CachedAll(cache) \cup Range(s)
       /\ Range(s) \subseteq free
  <2>1. \A i \in DOMAIN s : s[i] \in free
    BY ZenonT(60), <1>8
  <2> QED BY ONLY ZenonT(60), PlacedRefill, <1>1, <1>19, <2>1
<1>21. TakenFrom(C, cache', c, k, n, o)
  BY ZenonT(60), <1>13, <1>16, <1>17 DEF TakenFrom, Taken
<1>22. SamePushes(op, op')
  <2>1. \A d, p : Pushes(op', d, p) <=> \/ d = c /\ Idle.name = "push" /\ Idle.obj = p
                                        \/ d # c /\ Pushes(op, d, p)
    BY ZenonT(60), OneCall, <1>1, <1>7
  <2>2. \A p : ~Pushes(op, c, p)
    BY Zenon, OpTypes DEF Pushes
  <2> QED BY ZenonT(60), OpTypes, <2>1, <2>2 DEF SamePushes
<1>23. /\ Placed(cache', op', free \ Range(s), live \cup ({o} \ {NullOffset}))
       /\ CachedAll(cache') = CachedAll(C) \ ({o} \ {NullOffset})
       /\ PushedAll(op') = PushedAll(op)
  <2>1. PICK g : g = free \ Range(s)
    BY Zenon 
  <2>2. Placed(C, op, g, live)
    BY ZenonT(60), <1>20, <2>1
  <2>3. HandedOut(C, op, cache', op', g, live, o)
    BY ONLY ZenonT(60), PlacedTake, <1>21, <1>22, <2>2
  <2> QED BY ZenonT(60), <2>1, <2>3 DEF HandedOut
<1>24. CacheInv'
  BY ZenonT(60), <1>7, <1>14, <1>23 DEF CacheInv
<1>25. PoolStep(CachedAll(cache), live \cup PushedAll(op), free,
                CachedAll(cache'), live' \cup PushedAll(op'), free')
  <2>1. PICK S, T : S = Range(s) /\ T = {o} \ {NullOffset}
    BY Zenon 
  <2>2. T \subseteq S
    <3>1. o # NullOffset => Holds(F, k, n, o)
      BY ZenonT(60), <1>13 DEF Taken
    <3>2. Holds(F, k, n, o) => n \in DOMAIN s /\ s[n] = o
      BY Zenon, <1>10 DEF Filled
    <3> QED BY ZenonT(60), <2>1, <3>1, <3>2 DEF Range
  <2>3. \A p, q \in T : p = q
    BY ZenonT(60), <2>1
  <2>4. \A p \in S : p \notin CachedAll(cache)
    BY ZenonT(60), <1>1, <1>20, <2>1 DEF CachedAll, Placed, HeldAway
  <2>5. CachedAll(cache') = CachedAll(cache) \cup (S \ T)
    BY ZenonT(60), <1>20, <1>23, <2>1, <2>2, <2>4
  <2>6. live' \cup PushedAll(op') = (live \cup PushedAll(op)) \cup T
    BY ZenonT(60), <1>7, <1>23, <2>1
  <2>7. free' = free \ S /\ S \subseteq free
    BY ZenonT(60), <1>7, <1>20, <2>1
  <2> QED BY ZenonT(60), <2>2, <2>3, <2>5, <2>6, <2>7 DEF PoolStep
<1> QED BY Zenon, <1>24, <1>25 DEF Goes

LEMMA StoreStep ==
    ASSUME CacheInv, NEW c \in Caches, StorePushed(c)
    PROVE  Goes
<1>1. /\ CachesSound(cache, op) /\ cache \in [Caches -> CacheRec] /\ op \in [Caches -> OpRec]
      /\ Placed(cache, op, free, live) /\ Sound(cache[c])
  BY Zenon DEF CacheInv, CachesSound
<1>2. op[c].name = "push"
  BY Zenon DEF StorePushed
<1>3. op[c].bin \in Bins /\ NewSize(c) = ObjectSize[op[c].bin] /\ op[c].obj \in Object
  BY ZenonT(60), SizeAsked, OpFields, <1>1, <1>2
<1>4. PICK b \in Bins : b = op[c].bin
  BY ZenonT(60), <1>3
<1>5. PICK o \in Object : o = op[c].obj
  BY Zenon, <1>3
<1>6. PICK K, A : K = cache[c] /\ A = Roomy(K, b)
  BY Zenon 
<1>7. PICK G : G = WithObject(A, b, o)
  BY Zenon 
<1>8. /\ ~NeedsRoom(K, ObjectSize[b])
      /\ cache' = [cache EXCEPT ![c] = G]
      /\ op' = [op EXCEPT ![c] = Idle]
      /\ free' = free /\ live' = live
  BY ZenonT(60), <1>3, <1>4, <1>5, <1>6, <1>7 DEF StorePushed, Roomy, WithObject
<1>9. /\ SameContents(K, A) /\ A.bins[b].active # Nil /\ A.bins[b].size # k_capacity
      /\ A.total = K.total
  BY ZenonT(60), RoomySound, <1>1, <1>6, <1>8 DEF NeedsRoom
<1>10. A.total + ObjectSize[b] <= MaxCacheSize
  <2>1. K.total \in Int /\ ObjectSize[b] \in Int
    <3>1. \A m \in Nat : m \in Int
      OBVIOUS
    <3> QED BY ZenonT(60), CacheFields, SizeTypes, <1>1, <1>6, <3>1 DEF Sound
  <2>2. \A x, y \in Int : ~(x + y > MaxCacheSize) => x + y <= MaxCacheSize
    BY SizeTypes
  <2> QED BY ZenonT(60), <1>8, <1>9, <2>1, <2>2 DEF NeedsRoom
<1>11. PICK k, n : k = A.bins[b].active /\ n = A.bins[b].size + 1
  BY Zenon 
<1>12. Stored(A, G, k, n, o)
  BY ZenonT(60), StoreSound, <1>7, <1>9, <1>10, <1>11 DEF SameContents
<1>13. CachesSound(cache', op')
  BY ZenonT(60), OneSound, OpTypes, <1>1, <1>8, <1>12 DEF Stored
<1>14. Pushes(op, c, o)
  BY ZenonT(60), <1>2, <1>5 DEF Pushes
<1>15. StoredAt(cache, cache', c, k, n, o)
  <2>1. \A d, x, i, p : HoldsIn(cache', d, x, i, p) <=>
                           \/ d = c /\ Holds(G, x, i, p)
                           \/ d # c /\ HoldsIn(cache, d, x, i, p)
    BY ZenonT(60), OneCache, <1>1, <1>8
  <2>2. \A x, i, p : HoldsIn(cache, c, x, i, p) <=> Holds(A, x, i, p)
    BY ZenonT(60), <1>6, <1>9 DEF HoldsIn, SameContents
  <2>3. \A x, i, p : Holds(G, x, i, p) <=> Holds(A, x, i, p) \/ (x = k /\ i = n /\ p = o)
    BY Zenon, <1>12 DEF Stored
  <2>4. ASSUME NEW d, NEW x, NEW i, NEW p
        PROVE  HoldsIn(cache', d, x, i, p) <=> \/ HoldsIn(cache, d, x, i, p)
                                               \/ d = c /\ x = k /\ i = n /\ p = o
    <3>1. CASE d = c
      <4>1. HoldsIn(cache', c, x, i, p) <=> Holds(G, x, i, p)
        BY Zenon, <2>1
      <4>2. HoldsIn(cache', c, x, i, p) <=> \/ HoldsIn(cache, c, x, i, p)
                                            \/ x = k /\ i = n /\ p = o
        BY ZenonT(60), <2>2, <2>3, <4>1
      <4> QED BY ZenonT(60), <3>1, <4>2
    <3>2. CASE d # c
      BY ZenonT(60), <2>1, <3>2
    <3> QED BY ZenonT(60), <3>1, <3>2
  <2> QED BY Zenon, <2>4 DEF StoredAt
<1>16. PushEnds(op, op', c)
  <2>1. \A d, p : Pushes(op', d, p) <=> \/ d = c /\ Idle.name = "push" /\ Idle.obj = p
                                        \/ d # c /\ Pushes(op, d, p)
    BY ZenonT(60), OneCall, <1>1, <1>8
  <2> QED BY ZenonT(60), OpTypes, <2>1 DEF PushEnds
<1>17. /\ Placed(cache', op', free, live)
       /\ CachedAll(cache') = CachedAll(cache) \cup {o}
       /\ o \in live \cup PushedAll(op)
       /\ live \cup PushedAll(op') = (live \cup PushedAll(op)) \ {o}
  <2>1. Kept(cache, op, cache', op', free, live, o)
    BY ONLY ZenonT(60), PlacedStore, <1>1, <1>14, <1>15, <1>16
  <2> QED BY Zenon, <2>1 DEF Kept
<1>18. CacheInv'
  BY ZenonT(60), <1>8, <1>13, <1>17 DEF CacheInv
<1> QED BY ZenonT(60), <1>8, <1>17, <1>18 DEF Goes, PoolStep

\* A cache without objects, as its constructor and clear() leave it.
NewCache == EmptyCache([k \in Block |-> RawBlock])

LEMMA NewSound ==
    Sound(NewCache) /\ \A x, i, o : ~Holds(NewCache, x, i, o)
<1>1. /\ NumBlocks \in Nat /\ NumBlocks # 0 /\ 0 \in Bins
      /\ k_capacity \in Nat /\ MaxCacheSize \in Nat
  BY Zenon, CacheAssumption DEF CacheAssumption
<1>2. Nil \in Pointer /\ 1 \in Pointer /\ 0 \in 0 .. k_capacity /\ 0 \in Int /\ 0 <= MaxCacheSize
  BY <1>1 DEF Pointer, Nil
<1>3. RawBlock \in BlockRec
  <2>1. NoEntries \in [1 .. k_capacity -> Object \cup {NullOffset}]
    BY Zenon DEF NoEntries
  <2> QED BY ZenonT(60), <1>1, <1>2, <2>1 DEF RawBlock, BlockRec
<1>4. NoActive \in HeaderRec /\ NoActive.active = Nil /\ NoActive.size = 0
  BY Zenon, <1>2 DEF NoActive, HeaderRec
<1>5. PICK B : B = [k \in Block |-> RawBlock]
  BY Zenon 
<1>6. B \in [Block -> BlockRec]
  BY ZenonT(60), <1>3, <1>5
<1>7. PICK H : H = [b \in Bins |-> NoActive]
  BY Zenon 
<1>8. H \in [Bins -> HeaderRec]
  BY ZenonT(60), <1>4, <1>7
<1>9. PICK K : K = NewCache
  BY Zenon 
<1>10. K = [blocks |-> B, m_blocks |-> Nil, uninit_top |-> 1, total |-> 0,
            oldest |-> Nil, newest |-> Nil, bins |-> H]
  BY ZenonT(60), <1>5, <1>7, <1>9 DEF NewCache, EmptyCache
<1>11. K \in CacheRec
  BY ZenonT(60), <1>2, <1>6, <1>8, <1>10 DEF CacheRec
<1>12. /\ K.m_blocks = Nil /\ K.uninit_top = 1 /\ K.total = 0
       /\ K.oldest = Nil /\ K.newest = Nil /\ K.bins = H
  BY Zenon, <1>10
<1>13. \A b \in Bins : K.bins[b].active = Nil /\ K.bins[b].size = 0
  BY ZenonT(60), <1>4, <1>7, <1>12
<1>14. PICK ord : ord = [x \in Block |-> {}]
  BY Zenon 
<1>15. Linked(K, {}, {}, ord)
  <2>1. ord \in [Block -> SUBSET Block]
    BY Zenon, <1>14
  <2>2. Untouched(K) = Block
    <3>1. 1 # Nil
      BY DEF Nil
    <3> QED BY ZenonT(60), <1>12, <3>1 DEF Untouched, Block
  <2>3. {} \cap {} = {} /\ {} \cup {} = Block \ Untouched(K)
    BY Zenon, <2>2
  <2>4. AgeLinked(K, {}, ord) /\ FreeLinked(K, {}, ord)
    BY Zenon, <1>12 DEF AgeLinked, FreeLinked, Ordered, Top, Bottom
  <2>5. ASSUME NEW b \in Bins
        PROVE  BinLinked(K, BinSet(K, {}, b), ord, b)
    <3>1. BinSet(K, {}, b) = {}
      BY Zenon DEF BinSet
    <3>2. BinLinked(K, {}, ord, b)
      BY ZenonT(60), <1>13 DEF BinLinked, Top
    <3> QED BY ZenonT(60), <3>1, <3>2
  <2>6. {} \in SUBSET Block
    BY Zenon 
  <2> QED BY ZenonT(60), <2>1, <2>3, <2>4, <2>5, <2>6 DEF Linked
<1>16. InUse(K) = {}
  BY ZenonT(60), LinkedWalks, <1>15
<1>17. \E F, r : Linked(K, InUse(K), F, r)
  BY ZenonT(60), <1>15, <1>16
<1>18. Sum(K) = 0
  <2>1. PICK w : w = [k \in Block |-> Bytes(K, k)]
    BY Zenon 
  <2>2. \A x \in Block : w[x] = 0
    BY ZenonT(60), UnusedHolds, <1>16, <2>1
  <2>3. Total(w) = 0
    BY ZenonT(60), TotalZero, <2>2
  <2> QED BY ZenonT(60), <2>1, <2>3 DEF Sum
<1>19. Sound(K)
  BY ZenonT(60), <1>2, <1>11, <1>12, <1>13, <1>17, <1>18 DEF Sound
<1>20. \A x, i, o : ~Holds(K, x, i, o)
  BY ZenonT(60), <1>16 DEF Holds
<1> QED BY ZenonT(60), <1>9, <1>19, <1>20

\* The blocks in use are those of the bins.
LEMMA BinsInUse ==
    ASSUME NEW K, Sound(K)
    PROVE  /\ \A k \in InUse(K) : k \in Block
           /\ \A k : k \in InUse(K) <=> \E b \in Bins : k \in Range(BinBlocks(K, b))
<1>1. PICK F, ord : Linked(K, InUse(K), F, ord)
  BY Zenon DEF Sound
<1>2. \A k \in InUse(K) : k \in Block
  BY Zenon, <1>1 DEF Linked
<1>3. ASSUME NEW b \in Bins
      PROVE  Range(BinBlocks(K, b)) = BinSet(K, InUse(K), b)
  <2>1. Lists(BinSet(K, InUse(K), b), ord, K.bins[b].active,
              [k \in Block |-> K.blocks[k].bin_older], BinBlocks(K, b))
    BY ZenonT(60), LinkedWalks, <1>1
  <2> QED BY Zenon, <2>1 DEF Lists
<1>4. \A k \in InUse(K) : K.blocks[k].bin_no \in Bins
  BY ZenonT(60), CacheFields, Fields, <1>2 DEF Sound
<1>5. \A b, k : k \in BinSet(K, InUse(K), b) <=> k \in InUse(K) /\ K.blocks[k].bin_no = b
  BY Zenon DEF BinSet
<1>6. ASSUME NEW k
      PROVE  k \in InUse(K) <=> \E b \in Bins : k \in Range(BinBlocks(K, b))
  <2>1. \A b \in Bins : k \in Range(BinBlocks(K, b)) <=> k \in BinSet(K, InUse(K), b)
    BY ZenonT(60), <1>3
  <2> QED BY ZenonT(60), <1>4, <1>5, <2>1
<1> QED BY ZenonT(60), <1>2, <1>6

\* What clear() deallocates is what the blocks in use hold.
LEMMA AllHeld ==
    ASSUME NEW K, Sound(K)
    PROVE  /\ \A o : o \in Cleared(K) <=> \E k, i : Holds(K, k, i, o)
           /\ \A o : o \in UNION {Entries(K, k) : k \in InUse(K)} <=> \E k, i : Holds(K, k, i, o)
<1>1. \A k \in InUse(K) : \A o : o \in Entries(K, k) <=> \E i : Holds(K, k, i, o)
  BY ZenonT(60), BinsInUse, EntriesHold
<1>2. \A k, i, o : Holds(K, k, i, o) => k \in InUse(K)
  BY Zenon DEF Holds
<1>3. ASSUME NEW o
      PROVE  (\E k \in InUse(K) : o \in Entries(K, k)) <=> \E k, i : Holds(K, k, i, o)
  BY ZenonT(60), <1>1, <1>2
<1>4. \A o : o \in UNION {Entries(K, k) : k \in InUse(K)} <=> \E k \in InUse(K) : o \in Entries(K, k)
  BY Zenon 
<1>5. UNION {Range(BinBlocks(K, b)) : b \in Bins} = InUse(K)
  BY ZenonT(60), BinsInUse
<1>6. Cleared(K) = UNION {Entries(K, k) : k \in InUse(K)}
  BY ZenonT(60), <1>5 DEF Cleared
<1> QED BY ZenonT(60), <1>3, <1>4, <1>6

LEMMA ClearStep ==
    ASSUME CacheInv, Clear
    PROVE  Goes
<1>1. /\ CachesSound(cache, op) /\ cache \in [Caches -> CacheRec] /\ op \in [Caches -> OpRec]
      /\ Placed(cache, op, free, live) /\ \A c \in Caches : Sound(cache[c])
  BY Zenon DEF CacheInv, CachesSound
<1>2. PICK S : S = UNION {Cleared(cache[c]) : c \in Caches}
  BY Zenon 
<1>3. /\ \A c \in Caches : op[c] = Idle
      /\ free' = free \cup S
      /\ cache' = [c \in Caches |-> NewCache]
      /\ op' = op /\ live' = live
  BY ZenonT(60), <1>2 DEF Clear, NewCache
<1>4. CachesSound(cache', op')
  <2>1. \A c \in Caches : cache'[c] = NewCache /\ op'[c].name # "fill"
    BY ZenonT(60), OpTypes, <1>3
  <2>2. cache' \in [Caches -> CacheRec]
    BY ZenonT(60), NewSound, <1>3 DEF Sound
  <2> QED BY ZenonT(60), NewSound, <1>1, <1>3, <2>1, <2>2 DEF CachesSound
<1>5. ReleasedFrom(cache, cache', S)
  <2>1. \A d, x, i, p : ~HoldsIn(cache', d, x, i, p)
    BY ZenonT(60), NewSound, <1>3 DEF HoldsIn
  <2>2. \A p : p \in S <=> \E c \in Caches : p \in Cleared(cache[c])
    BY Zenon, <1>2
  <2>3. \A p : p \in S <=> \E c, x, i : HoldsIn(cache, c, x, i, p)
    BY ZenonT(60), AllHeld, <1>1, <2>2 DEF HoldsIn
  <2> QED BY ZenonT(60), <2>1, <2>3 DEF ReleasedFrom
<1>6. /\ Placed(cache', op, free \cup S, live)
      /\ CachedAll(cache') = CachedAll(cache) \ S
      /\ S \subseteq CachedAll(cache)
  BY ONLY ZenonT(60), PlacedRelease, <1>1, <1>5
<1>7. CacheInv'
  BY ZenonT(60), <1>3, <1>4, <1>6 DEF CacheInv
<1> QED BY ZenonT(60), <1>3, <1>6, <1>7 DEF Goes, PoolStep

-----------------------------------------------------------------------------
(* The theorems. *)

LEMMA CacheInitInv == Init => CacheInv
<1> SUFFICES ASSUME Init PROVE CacheInv
  OBVIOUS
<1>1. /\ cache = [c \in Caches |-> NewCache] /\ op = [c \in Caches |-> Idle]
      /\ free = Object /\ live = {}
  BY Zenon DEF Init, NewCache
<1>2. CachesSound(cache, op)
  <2>1. cache \in [Caches -> CacheRec] /\ op \in [Caches -> OpRec]
    BY ZenonT(60), NewSound, OpTypes, <1>1 DEF Sound
  <2>2. \A c \in Caches : Sound(cache[c]) /\ op[c].name # "fill"
    BY ZenonT(60), NewSound, OpTypes, <1>1
  <2> QED BY ZenonT(60), <2>1, <2>2 DEF CachesSound
<1>3. (\A d, x, i, p : ~HoldsIn(cache, d, x, i, p)) /\ \A d, p : ~Pushes(op, d, p)
  BY ZenonT(60), NewSound, OpTypes, <1>1 DEF HoldsIn, Pushes
<1>4. Placed(cache, op, free, live)
  <2>1. free \subseteq Object /\ live \subseteq Object /\ \A o \in free : o \notin live
    BY ZenonT(60), <1>1
  <2> QED BY ZenonT(60), <1>3, <2>1 DEF Placed, PushedAway, OnePusher, HeldAway, OneHolder
<1> QED BY ZenonT(60), <1>2, <1>4 DEF CacheInv

LEMMA CacheStep == ASSUME CacheInv, Next PROVE Goes
<1>1. ASSUME NEW c \in Caches, \E b \in Bins : Pop(c, b)
      PROVE  Goes
  BY ZenonT(60), PopStep, <1>1
<1>2. ASSUME NEW c \in Caches, \E o \in live : Push(c, o)
      PROVE  Goes
  BY ZenonT(60), PushStep, <1>2
<1>3. ASSUME NEW c \in Caches, Step(c)
      PROVE  Goes
  BY ZenonT(60), EvictStep, FillStep, StoreStep, <1>3 DEF Step
<1>4. CASE Clear
  BY ZenonT(60), ClearStep, <1>4
<1> QED BY ZenonT(60), <1>1, <1>2, <1>3, <1>4 DEF Next

\* A step that changes nothing keeps what holds.
LEMMA CacheStutter == ASSUME CacheInv, UNCHANGED vars PROVE Goes
<1>1. cache' = cache /\ op' = op /\ free' = free /\ live' = live
  BY Zenon DEF vars
<1>2. CacheInv'
  BY Zenon, <1>1 DEF CacheInv
<1> QED BY ZenonT(60), <1>1, <1>2 DEF Goes, PoolStep

\* The inductive invariant: at every step of pop, push, eviction, batch and clear()
\* the caches are sound and every object is in one place.
THEOREM CachesSoundAlways == Spec => []CacheInv
<1>1. CacheInv /\ [Next]_vars => CacheInv'
  BY ZenonT(60), CacheStep, CacheStutter DEF Goes
<1> QED BY CacheInitInv, <1>1, PTL DEF Spec

\* The age list, the bins' lists and the free list of every cache are intact after
\* any sequence of disconnect, link_to_older, unregister and free_blocks_list, and
\* the total size is that of the entries and within the limit (the assertions of
\* priv_pop and priv_push), for any number of caches, blocks, bins and objects.
THEOREM CachesExact == Spec => []CacheExact
<1>1. ASSUME CacheInv PROVE CacheExact
  <2>1. ASSUME NEW c \in Caches
        PROVE  Intact(cache[c]) /\ cache[c].total = Sum(cache[c]) /\ cache[c].total <= MaxCacheSize
    <3>1. Sound(cache[c])
      BY Zenon, <1>1 DEF CacheInv, CachesSound
    <3>2. PICK F, ord : Linked(cache[c], InUse(cache[c]), F, ord)
      BY Zenon, <3>1 DEF Sound
    <3>3. Intact(cache[c])
      BY ZenonT(60), LinkedIntact, <3>2
    <3> QED BY ZenonT(60), <3>1, <3>3 DEF Sound
  <2> QED BY ZenonT(60), <2>1 DEF CacheExact, ListsIntact, SizeExact, Sum
<1> QED BY <1>1, CachesSoundAlways, PTL

\* Whenever all_memory_deallocated says yes, no client holds a small object: what the
\* caches hold and what clients hold never overlap.
THEOREM DeallocatedMeansUnusedAlways == Spec => []DeallocatedMeansUnused
<1>1. ASSUME CacheInv PROVE DeallocatedMeansUnused
  <2>1. SUFFICES ASSUME all_memory_deallocated PROVE live = {}
    BY Zenon DEF DeallocatedMeansUnused
  <2>2. /\ Placed(cache, op, free, live) /\ free \subseteq Object /\ live \subseteq Object
        /\ \A o \in free : o \notin live
    BY ZenonT(60), <1>1 DEF CacheInv, Placed
  <2>3. CASE free = Object
    BY Zenon, <2>2, <2>3
  <2>4. CASE AllSmallAllocationsCached
    <3> SUFFICES ASSUME NEW o \in live PROVE FALSE
      BY Zenon 
    <3>1. o \in Object \ free
      BY Zenon, <2>2
    <3>2. PICK e \in Visited : o = At(e)
      BY Zenon, <2>4, <3>1 DEF AllSmallAllocationsCached
    <3>3. PICK c, k, i : c = e[1] /\ k = e[2] /\ i = e[3]
      BY Zenon 
    <3>4. c \in Caches /\ k \in Block /\ i \in 1 .. k_capacity
      BY ZenonT(60), <3>2, <3>3 DEF Visited
    <3>5. (\E b \in Bins : k \in Range(BinBlocks(cache[c], b))) /\ i <= NumObjects(cache[c], k)
      BY ZenonT(60), <3>2, <3>3 DEF Visited
    <3>6. Sound(cache[c]) /\ cache[c] \in CacheRec
      BY ZenonT(60), <1>1, <3>4 DEF CacheInv, CachesSound, Sound
    <3>7. k \in InUse(cache[c])
      BY ZenonT(60), BinsInUse, <3>5, <3>6
    <3>8. i \in 1 .. NumObjects(cache[c], k)
      <4>1. NumObjects(cache[c], k) \in 0 .. k_capacity
        BY ZenonT(60), BytesType, <3>4, <3>6
      <4>2. \A n \in 0 .. k_capacity : i <= n => i \in 1 .. n
        BY <3>4
      <4> QED BY ZenonT(60), <3>5, <4>1, <4>2
    <3>9. cache[c].blocks[k].cache[i] = o
      BY ZenonT(60), <3>2, <3>3 DEF At
    <3>10. HoldsIn(cache, c, k, i, o)
      BY ZenonT(60), <3>1, <3>4, <3>7, <3>8, <3>9 DEF HoldsIn, Holds
    <3> QED BY Zenon, <2>2, <3>10 DEF Placed, HeldAway
  <2> QED BY ZenonT(60), <2>1, <2>3, <2>4 DEF all_memory_deallocated
<1> QED BY <1>1, CachesSoundAlways, PTL

\* What the pool calls cached, and what its clients have.
LEMMA PooledAre ==
    ASSUME NEW C, NEW P, CachesSound(C, P)
    PROVE  /\ UNION {UNION {Entries(C[c], k) : k \in InUse(C[c])} : c \in Caches} = CachedAll(C)
           /\ {P[c].obj : c \in {d \in Caches : P[d].name = "push"}} = PushedAll(P)
<1>1. ASSUME NEW o
      PROVE  (\E c \in Caches : o \in UNION {Entries(C[c], k) : k \in InUse(C[c])})
                <=> o \in CachedAll(C)
  <2>1. \A c \in Caches : o \in UNION {Entries(C[c], k) : k \in InUse(C[c])}
                            <=> \E k, i : Holds(C[c], k, i, o)
    BY Zenon, AllHeld DEF CachesSound
  <2>2. \A c, k, i : Holds(C[c], k, i, o) => o \in Object
    BY Zenon DEF Holds
  <2> QED BY ZenonT(60), <2>1, <2>2 DEF CachedAll, HoldsIn
<1>2. \A c \in Caches : P[c].name = "push" => P[c].obj \in Object
  BY Zenon, OpFields DEF CachesSound
<1>3. ASSUME NEW o
      PROVE  (\E c \in Caches : P[c].name = "push" /\ P[c].obj = o) <=> o \in PushedAll(P)
  BY Zenon, <1>2 DEF PushedAll, Pushes
<1>4. UNION {UNION {Entries(C[c], k) : k \in InUse(C[c])} : c \in Caches} = CachedAll(C)
  <2>1. PICK E : E = [c \in Caches |-> UNION {Entries(C[c], k) : k \in InUse(C[c])}]
    BY Zenon 
  <2>2. \A c \in Caches : E[c] = UNION {Entries(C[c], k) : k \in InUse(C[c])}
    BY ZenonT(60), <2>1
  <2>3. UNION {E[c] : c \in Caches} = CachedAll(C)
    BY ZenonT(60), <1>1, <2>2
  <2>4. {E[c] : c \in Caches} = {UNION {Entries(C[c], k) : k \in InUse(C[c])} : c \in Caches}
    BY Zenon, <2>2
  <2> QED BY ZenonT(60), <2>3, <2>4
<1>5. {P[c].obj : c \in {d \in Caches : P[d].name = "push"}} = PushedAll(P)
  <2>1. \A o : o \in {P[c].obj : c \in {d \in Caches : P[d].name = "push"}}
                 <=> \E c \in Caches : P[c].name = "push" /\ P[c].obj = o
    BY Zenon 
  <2> QED BY Zenon, <1>3, <2>1
<1> QED BY ZenonT(60), <1>4, <1>5

\* The caches implement the pool: pops take a cached object or one of a fresh batch,
\* pushes give it back, evictions and clear() free what is cached; no object is lost
\* and none is handed out twice.
THEOREM CachesImplementPool == Spec => ImplementsPool
<1> DEFINE cached == UNION {CachedIn(c) : c \in Caches}
           held == live \cup {op[c].obj : c \in {d \in Caches : op[d].name = "push"}}
<1>1. ASSUME CacheInv
      PROVE  cached = CachedAll(cache) /\ held = live \cup PushedAll(op)
  BY Zenon, PooledAre, <1>1 DEF CacheInv, CachedIn
<1>2. ASSUME CacheInv'
      PROVE  cached' = CachedAll(cache') /\ held' = live' \cup PushedAll(op')
  BY ZenonT(60), PooledAre, <1>2 DEF CacheInv, CachedIn
<1>3. Init => Pool!PoolInit
  <2> SUFFICES ASSUME Init PROVE Pool!PoolInit
    OBVIOUS
  <2>1. CacheInv /\ free = Object /\ live = {} /\ op = [c \in Caches |-> Idle]
    BY Zenon, CacheInitInv DEF Init
  <2>2. cache = [c \in Caches |-> NewCache]
    BY Zenon DEF Init, NewCache
  <2>3. CachedAll(cache) = {} /\ PushedAll(op) = {}
    BY ZenonT(60), NewSound, OpTypes, <2>1, <2>2 DEF CachedAll, PushedAll, HoldsIn, Pushes
  <2>4. cached = {} /\ held = {}
    BY ZenonT(60), <1>1, <2>1, <2>3
  <2> QED BY ZenonT(60), <2>1, <2>4 DEF Pool!PoolInit
<1>4. CacheInv /\ [Next]_vars => [Pool!PoolNext]_(Pool!poolVars)
  <2> SUFFICES ASSUME CacheInv, [Next]_vars PROVE [Pool!PoolNext]_(Pool!poolVars)
    OBVIOUS
  <2>1. Goes
    BY ZenonT(60), CacheStep, CacheStutter
  <2>2. PoolStep(cached, held, free, cached', held', free')
    BY ZenonT(60), <1>1, <1>2, <2>1 DEF Goes
  <2> HIDE DEF cached, held
  <2> QED BY ZenonT(60), <2>2 DEF PoolStep, Pool!PoolNext, Pool!poolVars, Pool!Take, Pool!Give,
             Pool!Refill, Pool!Release, cached, held
<1> QED BY <1>3, <1>4, CachesSoundAlways, PTL DEF Spec, ImplementsPool, Pool!PoolSpec
=============================================================================
