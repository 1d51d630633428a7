--------------------------- MODULE DataStoreProofs ---------------------------
(***************************************************************************)
(* The properly-closed mark can be trusted: proofs that the steps of any   *)
(* number of kernels on any number of stores keep StoreInv, crashes and    *)
(* failing file operations included.                                       *)
(***************************************************************************)
EXTENDS DataStore, TLAPS

-----------------------------------------------------------------------------
(* Kernels and their calls.                                                *)

\* What every step is followed by.
LEMMA NextStep ==
    ASSUME NEW r \in Kernel, CallOK(r), r.by # "none"
    PROVE  LET n == Steps(r.by, r.ro)[r.step] IN
           /\ r.step = "remove" => n = IF r.by = "remove" THEN "return" ELSE "create_root"
           /\ r.step = "create_root" => n = IF r.by = "copy" THEN "copy_segment" ELSE "create_mng"
           /\ r.step = "create_mng" => n = IF r.by = "create" THEN "unmark"
                                           ELSE IF r.by = "copy" THEN "copy_mng"
                                           ELSE "snapshot_segment"
           /\ r.step = "unmark" => n = IF r.by = "create" THEN "create_segment" ELSE "open_segment"
           /\ r.step = "create_segment" => n = "write_metadata"
           /\ r.step = "write_metadata" => n = IF r.by = "create" THEN "return" ELSE "mark"
           /\ r.step = "check" => n = IF r.ro THEN "open_segment" ELSE "unmark"
           /\ r.step = "open_segment" => n = "deserialize"
           /\ r.step = "deserialize" => n = "return"
           /\ r.step = "named" => n = "unique"
           /\ r.step = "unique" => n = "anonymous"
           /\ r.step = "anonymous" => n = "allocator"
           /\ r.step = "allocator" => n = IF r.by = "close" THEN "sync" ELSE "remove"
           /\ r.step = "sync" => n = "release"
           /\ r.step = "release" => n = IF r.ro THEN "return" ELSE "mark"
           /\ r.step = "mark" => n = "return"
           /\ r.step = "check_source" => n = "remove"
           /\ r.step = "copy_segment" => n = "create_mng"
           /\ r.step = "snapshot_segment" => n = "copy_mng"
           /\ r.step = "copy_mng" => n = IF r.by = "copy" THEN "mark" ELSE "write_metadata"
<1>0. r.by \in {"create", "open", "close", "snapshot", "copy", "remove"}
  BY Zenon DEF Kernel
<1>1. CASE r.by = "create"
  BY <1>1 DEF CallOK, Parts, Steps, CreateSteps
<1>2. CASE r.by = "open"
  BY <1>2 DEF CallOK, Parts, Steps, OpenSteps
<1>3. CASE r.by = "close"
  BY <1>3 DEF CallOK, Parts, Steps, CloseSteps
<1>4. CASE r.by = "snapshot"
  BY <1>4 DEF CallOK, Parts, Steps, SnapshotSteps
<1>5. CASE r.by = "copy"
  BY <1>5 DEF CallOK, Parts, Steps, CopySteps
<1>6. CASE r.by = "remove"
  BY <1>6 DEF CallOK, Parts, Steps, RemoveSteps
<1> QED BY Zenon, <1>0, <1>1, <1>2, <1>3, <1>4, <1>5, <1>6 

\* The record of a kernel that goes on, that idles and that has a store open.
LEMMA MovedIs ==
    ASSUME NEW r \in Kernel, NEW n
    PROVE  LET x == [r EXCEPT !.step = n] IN
           /\ x.by = r.by /\ x.step = n /\ x.open = r.open /\ x.ro = r.ro
           /\ x.path = r.path /\ x.dst = r.dst /\ x.src = r.src
           /\ x.mem = r.mem /\ x.intent = r.intent
BY Zenon DEF Kernel

LEMMA IdleIs ==
    /\ IdleKernel \in Kernel /\ CallOK(IdleKernel)
    /\ IdleKernel.by = "none" /\ IdleKernel.step = "none" /\ ~IdleKernel.open
    /\ ~IdleKernel.ro /\ IdleKernel.src = "none"
BY DEF IdleKernel, Kernel, NoData, Data, Absent, CallOK

LEMMA OpenIs ==
    ASSUME NEW r \in Kernel, r.path \in Paths
    PROVE  LET x == OpenKernel(r) IN
           /\ x \in Kernel /\ CallOK(x)
           /\ x.by = "none" /\ x.step = "none" /\ x.open /\ x.ro = r.ro
           /\ x.path = r.path /\ x.src = "none" /\ x.mem = r.mem
<1> DEFINE x == OpenKernel(r)
<1>1. /\ x \in Kernel
      /\ x.by = "none" /\ x.step = "none" /\ x.open /\ x.ro = r.ro
      /\ x.path = r.path /\ x.src = "none" /\ x.mem = r.mem
  BY Zenon, IdleIs DEF OpenKernel, Kernel
<1> HIDE DEF x
<1>2. CallOK(x)
  BY Zenon, <1>1 DEF CallOK
<1> QED BY Zenon, <1>1, <1>2 DEF x

\* A step ends with the next step of the call, with an open or an idle kernel.
LEMMA FinishIs ==
    ASSUME NEW r \in Kernel, CallOK(r), r.by # "none"
    PROVE  LET n == Steps(r.by, r.ro)[r.step] IN
           /\ n # "return" => Finish(r) = [r EXCEPT !.step = n]
           /\ n = "return" /\ r.by \in {"create", "open", "snapshot"} => Finish(r) = OpenKernel(r)
           /\ n = "return" /\ r.by \notin {"create", "open", "snapshot"} => Finish(r) = IdleKernel
           /\ Finish(r) \in Kernel /\ CallOK(Finish(r))
<1> DEFINE n == Steps(r.by, r.ro)[r.step]
<1>1. /\ n # "return" => Finish(r) = [r EXCEPT !.step = n]
      /\ n = "return" /\ r.by \in {"create", "open", "snapshot"} => Finish(r) = OpenKernel(r)
      /\ n = "return" /\ r.by \notin {"create", "open", "snapshot"} => Finish(r) = IdleKernel
  BY Zenon DEF Finish
<1>2. r.path \in Paths
  BY Zenon DEF CallOK
<1>3. CASE n = "return"
  BY Zenon, <1>1, <1>2, <1>3, OpenIs, IdleIs
<1>4. CASE n # "return"
  <2> DEFINE x == [r EXCEPT !.step = n]
  <2>1. /\ x.by = r.by /\ x.step = n /\ x.open = r.open /\ x.ro = r.ro
        /\ x.path = r.path /\ x.dst = r.dst /\ x.src = r.src
    BY ZenonT(60), MovedIs
  <2>2. n \in {"create_root", "create_mng", "unmark", "create_segment", "write_metadata",
               "open_segment", "deserialize", "unique", "anonymous", "allocator", "sync",
               "release", "mark", "remove", "copy_segment", "snapshot_segment", "copy_mng"}
    BY ZenonT(60), <1>4, NextStep DEF CallOK, Parts
  <2>3. x \in Kernel
    BY <2>2 DEF Kernel, Parts
  <2>4. CallOK(x)
    <3> HIDE DEF n, x
    <3>1. CASE r.by = "create"
      BY <3>1, <2>1, <1>4, NextStep DEF CallOK, n
    <3>2. CASE r.by = "open"
      BY ZenonT(60), <3>2, <2>1, <1>4, NextStep DEF CallOK, n
    <3>3. CASE r.by = "close"
      BY <3>3, <2>1, <1>4, NextStep DEF CallOK, Parts, n
    <3>4. CASE r.by = "snapshot"
      BY <3>4, <2>1, <1>4, NextStep DEF CallOK, Parts, n
    <3>5. CASE r.by = "copy"
      BY ZenonT(60), <3>5, <2>1, <1>4, NextStep DEF CallOK, n
    <3>6. CASE r.by = "remove"
      BY ZenonT(60), <3>6, <2>1, <1>4, NextStep DEF CallOK, n
    <3> QED BY Zenon, <3>1, <3>2, <3>3, <3>4, <3>5, <3>6 DEF Kernel
  <2> QED BY Zenon, <1>1, <1>4, <2>3, <2>4
<1> QED BY Zenon, <1>1, <1>3, <1>4

-----------------------------------------------------------------------------
(* Kernels keep apart.                                                     *)

\* Two kernels, whichever comes first.
BothApart(r, w) == Apart(r, w) /\ Apart(w, r)

\* A kernel that goes on in its call takes no more stores; past the check of a
\* store that it opens for writing, it has to find nobody else there.
LEMMA ApartMoves ==
    ASSUME NEW r \in Kernel, NEW w \in Kernel, NEW x \in Kernel, CallOK(r), CallOK(w), CallOK(x),
           BothApart(r, w),
           w.by # "none",
           x.by = w.by, x.open = w.open, x.ro = w.ro, x.path = w.path, x.dst = w.dst, x.src = w.src,
           x.step \in Parts => w.step \in Parts,
           w.by = "open" /\ ~w.ro /\ w.step = "check" => ~(r.open /\ r.path = w.dst)
    PROVE  BothApart(r, x)
<1>1. TargetsOf(x) \subseteq TargetsOf(w)
  BY DEF TargetsOf, CallOK, Parts
<1>2. Apart(r, x)
  BY Zenon, <1>1 DEF Apart, BothApart
<1>3. Apart(x, r)
  BY Zenon, <1>1 DEF Apart, BothApart
<1> QED BY Zenon, <1>2, <1>3 DEF BothApart

LEMMA ApartIdle ==
    ASSUME NEW r \in Kernel, CallOK(r)
    PROVE  BothApart(r, IdleKernel)
<1>1. TargetsOf(IdleKernel) = {}
  BY Zenon, IdleIs DEF TargetsOf
<1>2. Apart(r, IdleKernel)
  BY Zenon, <1>1, IdleIs DEF Apart, Takes, Builds
<1>3. Apart(IdleKernel, r)
  BY Zenon, <1>1, IdleIs, PathAssumption DEF Apart, CallOK, Takes, Builds
<1> QED BY Zenon, <1>2, <1>3 DEF BothApart

\* A kernel whose call ends with its store open: it had the store open before,
\* or was the only one to write it, or reads a store that nobody writes.
LEMMA ApartOpen ==
    ASSUME NEW r \in Kernel, NEW w \in Kernel, CallOK(r), CallOK(w),
           BothApart(r, w), w.open \/ w.by \in {"create", "open"},
           w.by = "open" /\ ~w.ro => w.step # "check",
           w.by = "open" /\ w.ro /\ r.open /\ r.path = w.path => r.ro
    PROVE  BothApart(r, OpenKernel(w))
<1> DEFINE x == OpenKernel(w)
<1> SUFFICES BothApart(r, x)
  OBVIOUS
<1>0. w.path \in Paths
  BY Zenon DEF CallOK
<1>1. /\ x.by = "none" /\ x.step = "none" /\ x.open /\ x.ro = w.ro
      /\ x.path = w.path /\ x.src = "none"
  BY Zenon, <1>0, OpenIs
<1>2. TargetsOf(x) = {}
  BY Zenon, <1>1 DEF TargetsOf
<1> HIDE DEF x
<1>3. CASE w.open
  BY ZenonT(60), <1>1, <1>2, <1>3, PathAssumption DEF Apart, BothApart, CallOK, Takes, Builds
<1>4. CASE w.by \in {"create", "open"}
  <2>1. w.dst = w.path /\ w.dst \in TargetsOf(w)
    BY Zenon, <1>4 DEF CallOK, TargetsOf
  <2>2. r.by \in Takes \cup {"open"} => r.dst \in TargetsOf(r) /\ r.dst \in Paths
    BY Zenon DEF CallOK, TargetsOf, Takes, Builds, Parts
  <2>3. Apart(r, x)
    BY Zenon, <1>1, <1>2, <1>4, <2>1 DEF Apart, BothApart, CallOK, Takes, Builds
  <2>4. Apart(x, r)
    BY ZenonT(60), <1>1, <1>2, <1>4, <2>1, <2>2, PathAssumption
    DEF Apart, BothApart, CallOK, Takes, Builds
  <2> QED BY Zenon, <2>3, <2>4 DEF BothApart
<1> QED BY Zenon, <1>3, <1>4

-----------------------------------------------------------------------------
(* What others do to the stores of a kernel.                               *)

\* The stores that a kernel may change.
WritesTo(w, p) ==
    \/ w.by \in Takes /\ p = w.dst
    \/ w.by = "open" /\ ~w.ro /\ w.step # "check" /\ p = w.dst
    \/ w.open /\ ~w.ro /\ p = w.path

\* The stores that a kernel's part of the invariant speaks of.
Uses(r, p) ==
    \/ r.open /\ r.path = p
    \/ r.by = "open" /\ r.step # "check" /\ r.path = p
    \/ r.by \in Takes /\ r.dst = p
    \/ r.by = "copy" /\ r.step # "check_source" /\ r.src = p

LEMMA NotUsed ==
    ASSUME NEW r \in Kernel, NEW w \in Kernel, NEW p \in Paths, CallOK(r), CallOK(w),
           BothApart(r, w), WritesTo(w, p), OpenOK(w), OpeningOK(r), BuildingOK(r)
    PROVE  ~Uses(r, p)
<1>1. w.by \in Takes \/ (w.by = "open" /\ ~w.ro /\ w.step # "check") => w.dst \in TargetsOf(w)
  BY Zenon DEF CallOK, TargetsOf, Takes, Builds, Parts
<1>2. r.by \in Takes \cup {"open"} => r.dst \in TargetsOf(r)
  BY Zenon DEF CallOK, TargetsOf, Takes, Builds, Parts
<1>3. ~(r.open /\ r.path = p)
  BY Zenon DEF WritesTo, BothApart, Apart
<1>4. ~(r.by = "open" /\ r.step # "check" /\ r.path = p)
  <2> SUFFICES ASSUME r.by = "open", r.step # "check", r.path = p PROVE FALSE
    OBVIOUS
  <2>1. r.dst = p
    BY Zenon DEF CallOK
  <2>2. CASE w.open /\ ~w.ro /\ p = w.path
    <3>1. ~disk[p].mark
      BY Zenon, <2>2 DEF OpenOK
    <3>2. ~r.ro
      BY Zenon, <3>1 DEF OpeningOK
    <3> QED BY Zenon, <2>1, <2>2, <3>2 DEF BothApart, Apart
  <2> QED BY Zenon, <1>1, <1>2, <2>1, <2>2 DEF WritesTo, BothApart, Apart
<1>5. ~(r.by \in Takes /\ r.dst = p)
  BY Zenon, <1>1, <1>2 DEF WritesTo, BothApart, Apart
<1>6. ~(r.by = "copy" /\ r.step # "check_source" /\ r.src = p)
  BY ZenonT(60) DEF WritesTo, BothApart, Apart, OpenOK, BuildingOK, CopyOK
<1> QED BY Zenon, <1>3, <1>4, <1>5, <1>6 DEF Uses

\* At most the files of store p change.
OnlyAt(p) ==
    \A q \in Paths \ {p} :
        disk'[q] = disk[q] /\ saved'[q] = saved[q] /\ (q \in removing' <=> q \in removing)

LEMMA KernelKept ==
    ASSUME NEW r \in Kernel, NEW p \in Paths, CallOK(r), ~Uses(r, p), OnlyAt(p),
           OpenOK(r), OpeningOK(r), BuildingOK(r)
    PROVE  OpenOK(r)' /\ OpeningOK(r)' /\ BuildingOK(r)'
<1>0. /\ r.by # "none" => r.path \in Paths /\ r.dst \in Paths
      /\ r.open => r.path \in Paths
      /\ r.by = "copy" => r.src \in Paths
  BY Zenon DEF CallOK
<1>1. OpenOK(r)'
  <2> SUFFICES ASSUME r.open PROVE OpenOK(r)'
    BY Zenon DEF OpenOK
  <2>1. disk'[r.path] = disk[r.path] /\ saved'[r.path] = saved[r.path]
    BY Zenon, <1>0 DEF Uses, OnlyAt
  <2> QED BY ZenonT(60), <2>1 DEF OpenOK
<1>2. OpeningOK(r)'
  <2> SUFFICES ASSUME r.by = "open", r.step # "check" PROVE OpeningOK(r)'
    BY Zenon DEF OpeningOK
  <2>1. disk'[r.path] = disk[r.path] /\ saved'[r.path] = saved[r.path]
    BY Zenon, <1>0 DEF Uses, OnlyAt
  <2> QED BY Zenon, <2>1 DEF OpeningOK
<1>3. BuildingOK(r)'
  <2> SUFFICES ASSUME r.by \in Builds PROVE BuildingOK(r)'
    BY Zenon DEF BuildingOK, SnapshotOK, CopyOK, Builds
  <2>1. disk'[r.dst] = disk[r.dst] /\ (r.dst \in removing' <=> r.dst \in removing)
    BY Zenon, <1>0 DEF Uses, OnlyAt, Builds, Takes
  <2>2. r.by = "copy" /\ r.step # "check_source" =>
            /\ disk'[r.src] = disk[r.src] /\ saved'[r.src] = saved[r.src]
            /\ (r.src \in removing' <=> r.src \in removing)
    BY Zenon, <1>0 DEF Uses, OnlyAt
  <2> QED BY ZenonT(60), <2>1, <2>2 DEF BuildingOK, SnapshotOK, CopyOK
<1> QED BY Zenon, <1>1, <1>2, <1>3

LEMMA StoreKept ==
    ASSUME NEW p \in Paths, NEW q \in Paths \ {p}, OnlyAt(p), StoreOK(q)
    PROVE  StoreOK(q)'
BY Zenon DEF StoreOK, OnlyAt, Complete

\* A UUID stays another store's when no store gets it.
LEMMA UuidKept ==
    ASSUME NEW r \in Kernel, NEW p \in Paths, CallOK(r), ~Uses(r, p), OnlyAt(p),
           BuildingOK(r), UuidOK(r),
           disk'[p].uuid \in {Absent, disk[p].uuid}
    PROVE  UuidOK(r)'
<1> SUFFICES ASSUME r.by = "snapshot", r.step = "mark", NEW q \in Paths \ {r.dst}
             PROVE  disk'[q].uuid # disk'[r.dst].uuid
  BY Zenon DEF UuidOK
<1>1. r.dst \in Paths \ {p} /\ disk[r.dst].uuid # Absent
  BY Zenon DEF CallOK, Uses, Takes, Builds, BuildingOK, SnapshotOK
<1>2. disk'[r.dst] = disk[r.dst]
  BY Zenon, <1>1 DEF OnlyAt
<1>3. disk[q].uuid # disk[r.dst].uuid
  BY Zenon DEF UuidOK
<1> QED BY Zenon, <1>1, <1>2, <1>3 DEF OnlyAt

\* The other kernels.
OtherThan(k) == {kernel[j] : j \in Kernels \ {k}}

LEMMA Others ==
    ASSUME StoreInv, NEW k \in Kernels, NEW r \in OtherThan(k)
    PROVE  r \in Kernel /\ CallOK(r) /\ KernelOK(r) /\ BothApart(r, kernel[k])
<1>1. PICK j \in Kernels \ {k} : r = kernel[j]
  BY Zenon DEF OtherThan
<1> QED BY Zenon, <1>1 DEF StoreInv, TypeOK, BothApart

\* Of a step of kernel k that leaves it as x it is enough to look at k, at the
\* store it works on, and at the UUIDs the others rely on.
LEMMA StepKeeps ==
    ASSUME StoreInv, NEW k \in Kernels, NEW p, NEW x \in Kernel, CallOK(x),
           kernel' = [kernel EXCEPT ![k] = x], setup' = setup,
           disk' \in [Paths -> Store], saved' \in [Paths -> Data], removing' \subseteq Paths,
           OnlyAt(p),
           (p \in Paths /\ WritesTo(kernel[k], p)) \/ UNCHANGED <<disk, saved, removing>>,
           \A r \in OtherThan(k) : BothApart(r, x),
           \A r \in OtherThan(k) : UuidOK(r)',
           p \in Paths => StoreOK(p)', OpenOK(x)', OpeningOK(x)', BuildingOK(x)', UuidOK(x)'
    PROVE  StoreInv'
<1>1. kernel'[k] = x /\ \A j \in Kernels \ {k} : kernel'[j] = kernel[j]
  BY Zenon DEF StoreInv, TypeOK
<1>2. TypeOK'
  BY Zenon, <1>1 DEF StoreInv, TypeOK
<1>3. \A q \in Paths : StoreOK(q)'
  <2> SUFFICES ASSUME NEW q \in Paths PROVE StoreOK(q)'
    OBVIOUS
  <2>1. StoreOK(q)
    BY Zenon DEF StoreInv
  <2>2. CASE p \in Paths
    BY Zenon, <2>1, <2>2, StoreKept 
  <2>3. CASE UNCHANGED <<disk, saved, removing>>
    BY Zenon, <2>1, <2>3 DEF StoreOK, Complete
  <2> QED BY Zenon, <2>2, <2>3
<1>4. \A r \in OtherThan(k) : OpenOK(r)' /\ OpeningOK(r)' /\ BuildingOK(r)'
  <2> SUFFICES ASSUME NEW r \in OtherThan(k)
               PROVE  OpenOK(r)' /\ OpeningOK(r)' /\ BuildingOK(r)'
    OBVIOUS
  <2>1. r \in Kernel /\ CallOK(r) /\ KernelOK(r) /\ BothApart(r, kernel[k])
    BY Zenon, Others 
  <2>2. CASE UNCHANGED <<disk, saved, removing>>
    <3>1. OpenOK(r) /\ OpeningOK(r) /\ BuildingOK(r)
      BY Zenon, <2>1 DEF KernelOK
    <3>2. OpenOK(r)'
      BY Zenon, <2>2, <3>1 DEF OpenOK
    <3>3. OpeningOK(r)'
      BY Zenon, <2>2, <3>1 DEF OpeningOK
    <3>4. SnapshotOK(r)' /\ CopyOK(r)'
      BY ZenonT(60), <2>2, <3>1 DEF BuildingOK, SnapshotOK, CopyOK
    <3>5. BuildingOK(r)'
      BY Zenon, <2>2, <3>1, <3>4 DEF BuildingOK
    <3> QED BY Zenon, <3>2, <3>3, <3>5
  <2>3. CASE p \in Paths /\ WritesTo(kernel[k], p)
    <3>1. kernel[k] \in Kernel /\ CallOK(kernel[k]) /\ OpenOK(kernel[k])
      BY Zenon DEF StoreInv, TypeOK, KernelOK
    <3>2. ~Uses(r, p)
      BY Zenon, <2>1, <2>3, <3>1, NotUsed DEF KernelOK
    <3> QED BY Zenon, <2>1, <2>3, <3>2, KernelKept DEF KernelOK
  <2> QED BY Zenon, <2>2, <2>3
<1>5. \A j \in Kernels : KernelOK(kernel[j])'
  <2> SUFFICES ASSUME NEW j \in Kernels PROVE KernelOK(kernel[j])'
    OBVIOUS
  <2>1. PICK y : y = kernel'[j]
    OBVIOUS
  <2>2. OpenOK(y)' /\ OpeningOK(y)' /\ BuildingOK(y)' /\ UuidOK(y)'
    <3>1. CASE j = k
      BY Zenon, <1>1, <2>1, <3>1
    <3>2. CASE j # k
      <4>1. y \in OtherThan(k)
        BY Zenon, <1>1, <2>1, <3>2 DEF OtherThan
      <4> QED BY Zenon, <4>1, <1>4
    <3> QED BY Zenon, <3>1, <3>2
  <2>3. OpenOK(kernel[j])'
    BY <2>1, <2>2, ZenonT(30) DEF OpenOK
  <2>4. OpeningOK(kernel[j])'
    BY Zenon, <2>1, <2>2 DEF OpeningOK
  <2>5. BuildingOK(kernel[j])'
    <3>1. SnapshotOK(kernel[j])'
      BY ZenonT(60), <2>1, <2>2 DEF BuildingOK, SnapshotOK
    <3>2. CopyOK(kernel[j])'
      <4>1. CopyOK(y)'
        BY Zenon, <2>2 DEF BuildingOK
      <4> QED BY <2>1, <4>1, ZenonT(30) DEF CopyOK
    <3> QED BY Zenon, <2>1, <2>2, <3>1, <3>2 DEF BuildingOK
  <2>6. UuidOK(kernel[j])'
    BY Zenon, <2>1, <2>2 DEF UuidOK
  <2> QED BY Zenon, <2>3, <2>4, <2>5, <2>6 DEF KernelOK
<1>6. \A i, j \in Kernels : i # j => Apart(kernel'[i], kernel'[j])
  <2> SUFFICES ASSUME NEW i \in Kernels, NEW j \in Kernels, i # j
               PROVE  Apart(kernel'[i], kernel'[j])
    OBVIOUS
  <2>1. CASE i = k
    <3>1. kernel[j] \in OtherThan(k)
      BY Zenon, <2>1 DEF OtherThan
    <3> QED BY Zenon, <1>1, <2>1, <3>1 DEF BothApart
  <2>2. CASE j = k
    <3>1. kernel[i] \in OtherThan(k)
      BY Zenon, <2>2 DEF OtherThan
    <3> QED BY Zenon, <1>1, <2>2, <3>1 DEF BothApart
  <2>3. CASE i # k /\ j # k
    BY Zenon, <1>1, <2>3 DEF StoreInv
  <2> QED BY Zenon, <2>1, <2>2, <2>3
<1> QED BY Zenon, <1>2, <1>3, <1>5, <1>6 DEF StoreInv

-----------------------------------------------------------------------------
(* Steps end.                                                              *)

LEMMA Own ==
    ASSUME StoreInv, NEW k \in Kernels
    PROVE  /\ kernel[k] \in Kernel /\ CallOK(kernel[k]) /\ KernelOK(kernel[k])
           /\ OpenOK(kernel[k]) /\ OpeningOK(kernel[k]) /\ BuildingOK(kernel[k]) /\ UuidOK(kernel[k])
           /\ SnapshotOK(kernel[k]) /\ CopyOK(kernel[k])
BY Zenon DEF StoreInv, TypeOK, KernelOK, BuildingOK

\* Between two calls there is nothing to say but of an open store.
LEMMA BetweenCalls ==
    ASSUME NEW x, x.by = "none"
    PROVE  /\ OpeningOK(x) /\ BuildingOK(x) /\ UuidOK(x)
           /\ OpeningOK(x)' /\ BuildingOK(x)' /\ UuidOK(x)'
BY Zenon DEF OpeningOK, BuildingOK, SnapshotOK, CopyOK, UuidOK, Builds

LEMMA IdleOK ==
    /\ OpenOK(IdleKernel) /\ OpeningOK(IdleKernel) /\ BuildingOK(IdleKernel) /\ UuidOK(IdleKernel)
    /\ OpenOK(IdleKernel)' /\ OpeningOK(IdleKernel)' /\ BuildingOK(IdleKernel)' /\ UuidOK(IdleKernel)'
<1>1. OpenOK(IdleKernel) /\ OpenOK(IdleKernel)'
  BY Zenon, IdleIs DEF OpenOK, IdleKernel
<1>2. PICK x : x = IdleKernel
  OBVIOUS
<1>3. x.by = "none"
  BY Zenon, <1>2, IdleIs
<1>4. /\ OpeningOK(x) /\ BuildingOK(x) /\ UuidOK(x)
      /\ OpeningOK(x)' /\ BuildingOK(x)' /\ UuidOK(x)'
  BY Zenon, <1>3, BetweenCalls 
<1> QED BY Zenon, <1>1, <1>2, <1>4 

\* What a kernel has in memory does not matter to the others.
SameCall(y, w) == /\ y.by = w.by /\ y.step = w.step /\ y.open = w.open /\ y.ro = w.ro
                  /\ y.path = w.path /\ y.dst = w.dst /\ y.src = w.src

LEMMA SameCallIs ==
    ASSUME NEW w, NEW y, SameCall(y, w)
    PROVE  /\ CallOK(w) => CallOK(y)
           /\ \A r : BothApart(r, w) => BothApart(r, y)
<1>1. CallOK(w) => CallOK(y)
  BY ZenonT(60) DEF CallOK, SameCall
<1>2. ASSUME NEW r, BothApart(r, w)  PROVE BothApart(r, y)
  BY ZenonT(60), <1>2 DEF BothApart, Apart, TargetsOf, SameCall
<1> QED BY Zenon, <1>1, <1>2 

LEMMA ApartFinish ==
    ASSUME StoreInv, NEW k \in Kernels, NEW y \in Kernel, SameCall(y, kernel[k]), y.by # "none",
           y.step = "check" => disk[y.path].mark,
           NEW r \in OtherThan(k)
    PROVE  BothApart(r, Finish(y))
<1>1. /\ kernel[k] \in Kernel /\ CallOK(kernel[k])
      /\ OpenOK(kernel[k]) /\ OpeningOK(kernel[k])
  BY Zenon, Own 
<1>2. CallOK(y)
  BY Zenon, <1>1, SameCallIs 
<1>3. r \in Kernel /\ CallOK(r) /\ OpenOK(r) /\ BothApart(r, kernel[k])
  BY Zenon, Others DEF KernelOK
<1>4. BothApart(r, y)
  BY Zenon, <1>3, SameCallIs 
<1>5. r.open /\ ~r.ro => ~disk[r.path].mark
  BY Zenon, <1>3 DEF OpenOK
<1> DEFINE n == Steps(y.by, y.ro)[y.step]
<1>6. CASE n # "return"
  <2>1. Finish(y) = [y EXCEPT !.step = n] /\ Finish(y) \in Kernel /\ CallOK(Finish(y))
    BY Zenon, <1>2, <1>6, FinishIs
  <2> DEFINE x == Finish(y)
  <2>2. /\ x.by = y.by /\ x.step = n /\ x.open = y.open /\ x.ro = y.ro
        /\ x.path = y.path /\ x.dst = y.dst /\ x.src = y.src
    BY <2>1, MovedIs
  <2>3. x.step \in Parts => y.step \in Parts
    BY <1>2, <2>2, NextStep, <1>6, ZenonT(30) DEF CallOK, Parts
  <2>4. y.by = "open" /\ ~y.ro /\ y.step = "check" => ~(r.open /\ r.path = y.dst)
    BY Zenon, <1>2, <1>4, <1>5 DEF BothApart, Apart, CallOK
  <2> QED BY Zenon, <1>2, <1>3, <1>4, <2>1, <2>2, <2>3, <2>4, ApartMoves 
<1>7. CASE n = "return" /\ y.by \in {"create", "open", "snapshot"}
  <2>1. Finish(y) = OpenKernel(y)
    BY Zenon, <1>2, <1>7, FinishIs
  <2>2. y.open \/ y.by \in {"create", "open"}
    BY Zenon, <1>2, <1>7 DEF CallOK
  <2>3. y.by = "open" => y.step = "deserialize"
    BY ZenonT(60), <1>2, <1>7, NextStep DEF CallOK
  <2>4. y.by = "open" /\ y.ro => disk[y.path].mark
    BY Zenon, <1>1, <2>3 DEF OpeningOK, SameCall
  <2> QED BY Zenon, <1>2, <1>3, <1>4, <1>5, <2>1, <2>2, <2>3, <2>4, ApartOpen
<1>8. CASE n = "return" /\ y.by \notin {"create", "open", "snapshot"}
  <2>1. Finish(y) = IdleKernel
    BY Zenon, <1>2, <1>8, FinishIs
  <2> QED BY Zenon, <1>3, <2>1, ApartIdle
<1> QED BY Zenon, <1>6, <1>7, <1>8 

\* A kernel whose call fails is as between two calls.
LEMMA AbortIs ==
    ASSUME StoreInv, NEW k \in Kernels, kernel[k].by # "none"
    PROVE  /\ Abort(kernel[k]) \in Kernel /\ CallOK(Abort(kernel[k]))
           /\ \A r \in OtherThan(k) : BothApart(r, Abort(kernel[k]))
<1>1. kernel[k] \in Kernel /\ CallOK(kernel[k])
  BY Zenon, Own
<1>2. \A r \in OtherThan(k) : r \in Kernel /\ CallOK(r) /\ BothApart(r, kernel[k])
  BY Zenon, Others
<1>3. CASE kernel[k].open
  <2>1. kernel[k].by # "open" /\ kernel[k].path \in Paths
    BY Zenon, <1>1, <1>3 DEF CallOK
  <2>2. \A r \in OtherThan(k) : BothApart(r, OpenKernel(kernel[k]))
    BY Zenon, <1>1, <1>2, <1>3, <2>1, ApartOpen
  <2> QED BY Zenon, <1>1, <1>3, <2>1, <2>2, OpenIs DEF Abort
<1>4. CASE ~kernel[k].open
  BY Zenon, <1>2, <1>4, ApartIdle, IdleIs DEF Abort
<1> QED BY Zenon, <1>3, <1>4

-----------------------------------------------------------------------------
(* Steps that leave the files alone.                                       *)

LEMMA FilesAlone ==
    ASSUME StoreInv, NEW k \in Kernels, NEW x \in Kernel, CallOK(x),
           kernel' = [kernel EXCEPT ![k] = x], UNCHANGED <<setup, disk, saved, removing>>,
           \A r \in OtherThan(k) : BothApart(r, x),
           OpenOK(x), OpeningOK(x), BuildingOK(x), UuidOK(x)
    PROVE  StoreInv'
<1>1. OpenOK(x)'
  BY Zenon DEF OpenOK
<1>2. OpeningOK(x)'
  BY Zenon DEF OpeningOK
<1>3. BuildingOK(x)'
  BY ZenonT(60) DEF BuildingOK, SnapshotOK, CopyOK
<1>4. UuidOK(x)'
  BY Zenon DEF UuidOK
<1>5. \A r \in OtherThan(k) : UuidOK(r)'
  BY Zenon, Others DEF UuidOK, KernelOK
<1>6. disk' \in [Paths -> Store] /\ saved' \in [Paths -> Data] /\ removing' \subseteq Paths
  BY Zenon DEF StoreInv, TypeOK
<1>7. OnlyAt("none")
  BY Zenon DEF OnlyAt
<1> QED BY Zenon, <1>1, <1>2, <1>3, <1>4, <1>5, <1>6, <1>7, PathAssumption, StepKeeps 

LEMMA AbortKeeps ==
    ASSUME StoreInv, NEW k \in Kernels, kernel[k].by # "none",
           kernel' = [kernel EXCEPT ![k] = Abort(@)], UNCHANGED <<setup, disk, saved, removing>>
    PROVE  StoreInv'
<1> DEFINE x == Abort(kernel[k])
<1>1. /\ x \in Kernel /\ CallOK(x)
      /\ \A r \in OtherThan(k) : BothApart(r, x)
  BY Zenon, AbortIs
<1>2. OpenOK(x) /\ OpeningOK(x) /\ BuildingOK(x) /\ UuidOK(x)
  <2>1. CASE kernel[k].open
    <3>1. kernel[k] \in Kernel /\ kernel[k].path \in Paths /\ OpenOK(kernel[k])
      BY Zenon, <2>1, Own DEF CallOK
    <3>2. /\ x.by = "none" /\ x.open /\ x.ro = kernel[k].ro
          /\ x.path = kernel[k].path /\ x.mem = kernel[k].mem
      BY Zenon, <2>1, <3>1, OpenIs DEF Abort
    <3> HIDE DEF x
    <3> QED BY Zenon, <2>1, <3>1, <3>2, BetweenCalls DEF OpenOK
  <2>2. CASE ~kernel[k].open
    BY Zenon, <2>2, IdleOK DEF Abort
  <2> QED BY Zenon, <2>1, <2>2
<1>3. kernel' = [kernel EXCEPT ![k] = x]
  BY Zenon 
<1> HIDE DEF x
<1> QED BY Zenon, <1>1, <1>2, <1>3, FilesAlone 

\* The step of a kernel that goes on.
LEMMA ProceedKeeps ==
    ASSUME StoreInv, NEW k \in Kernels, NEW y \in Kernel, SameCall(y, kernel[k]), y.by # "none",
           y.step = "check" => disk[y.path].mark,
           kernel' = [kernel EXCEPT ![k] = Finish(y)], UNCHANGED <<setup, disk, saved, removing>>,
           OpenOK(Finish(y)), OpeningOK(Finish(y)), BuildingOK(Finish(y)), UuidOK(Finish(y))
    PROVE  StoreInv'
<1>1. CallOK(y)
  BY Zenon, Own, SameCallIs 
<1>2. Finish(y) \in Kernel /\ CallOK(Finish(y))
  BY Zenon, <1>1, FinishIs
<1>3. \A r \in OtherThan(k) : BothApart(r, Finish(y))
  BY Zenon, ApartFinish
<1> QED BY Zenon, <1>2, <1>3, FilesAlone 

LEMMA CheckKeeps ==
    ASSUME StoreInv, NEW k \in Kernels, Check(k)
    PROVE  StoreInv'
<1> DEFINE w == kernel[k]
<1>1. w \in Kernel /\ CallOK(w)
  BY Zenon, Own
<1>2. w.step = "check" /\ w.by = "open" /\ ~w.open /\ w.dst = w.path /\ w.path \in Paths
  BY Zenon, <1>1 DEF Check, Doing, CallOK, Parts
<1>3. UNCHANGED <<setup, disk, saved, removing>>
  BY Zenon DEF Check, Passed, Same
<1>4. CASE ~priv_consistent(w.path)
  BY Zenon, <1>2, <1>3, <1>4, AbortKeeps DEF Check, Passed, Place, Parts
<1>5. CASE priv_consistent(w.path)
  <2> DEFINE x == Finish(w)
  <2>1. x = [w EXCEPT !.step = IF w.ro THEN "open_segment" ELSE "unmark"]
    BY <1>1, <1>2, NextStep, FinishIs
  <2>2. /\ x.by = "open" /\ ~x.open /\ x.ro = w.ro /\ x.path = w.path
        /\ x.step = IF w.ro THEN "open_segment" ELSE "unmark"
    BY <1>1, <1>2, <2>1, MovedIs
  <2>3. StoreOK(w.path)
    BY Zenon, <1>2 DEF StoreInv
  <2> HIDE DEF x
  <2>4. OpeningOK(x)
    BY Zenon, <1>5, <2>2, <2>3 DEF OpeningOK, StoreOK, priv_consistent
  <2>5. OpenOK(x) /\ BuildingOK(x) /\ UuidOK(x)
    BY Zenon, <2>2 DEF OpenOK, BuildingOK, SnapshotOK, CopyOK, UuidOK, Builds
  <2>6. kernel' = [kernel EXCEPT ![k] = x]
    BY Zenon, <1>2, <1>5 DEF Check, Passed, Proceed, Place, Parts, x
  <2> QED BY Zenon, <1>1, <1>2, <1>3, <1>5, <2>4, <2>5, <2>6, ProceedKeeps 
          DEF SameCall, x, priv_consistent
<1> QED BY Zenon, <1>4, <1>5

LEMMA CheckSourceKeeps ==
    ASSUME StoreInv, NEW k \in Kernels, CheckSource(k)
    PROVE  StoreInv'
<1> DEFINE w == kernel[k]
<1>1. w \in Kernel /\ CallOK(w)
  BY Own
<1>2. w.step = "check_source" /\ w.by = "copy" /\ ~w.open /\ w.src \in Paths
  BY Zenon, <1>1 DEF CheckSource, Doing, CallOK, Parts
<1>3. UNCHANGED <<setup, disk, saved, removing>>
  BY Zenon DEF CheckSource, Same
<1>4. CASE ~priv_consistent(w.src)
  BY Zenon, <1>2, <1>3, <1>4, AbortKeeps DEF CheckSource
<1>5. CASE priv_consistent(w.src)
  <2> DEFINE y == [w EXCEPT !.intent = saved[w.src]]
             x == Finish(y)
  <2>1. saved[w.src] \in Data
    BY Zenon, <1>2 DEF StoreInv, TypeOK
  <2>2. y \in Kernel /\ SameCall(y, w) /\ y.intent = saved[w.src]
    BY ZenonT(60), <1>1, <2>1 DEF Kernel, SameCall
  <2> HIDE DEF y
  <2>3. CallOK(y)
    BY ZenonT(60), <1>1, <2>2 DEF CallOK, SameCall
  <2>4. x = [y EXCEPT !.step = "remove"]
    BY <1>2, <2>2, <2>3, NextStep, FinishIs DEF SameCall
  <2>5. /\ x.by = "copy" /\ ~x.open /\ x.src = w.src /\ x.step = "remove"
        /\ x.intent = saved[w.src]
    BY <1>2, <2>2, <2>4, MovedIs DEF SameCall
  <2> HIDE DEF x
  <2>6. CopyOK(x)
    BY Zenon, <1>5, <2>5 DEF CopyOK, priv_consistent
  <2>7. OpenOK(x) /\ OpeningOK(x) /\ BuildingOK(x) /\ UuidOK(x)
    BY Zenon, <2>5, <2>6 DEF OpenOK, OpeningOK, BuildingOK, SnapshotOK, UuidOK, Builds
  <2>8. kernel' = [kernel EXCEPT ![k] = x]
    BY Zenon, <1>5 DEF CheckSource, Proceed, x, y
  <2> QED BY Zenon, <1>2, <1>3, <2>2, <2>7, <2>8, ProceedKeeps DEF SameCall, x
<1> QED BY Zenon, <1>4, <1>5

LEMMA OpenSegmentKeeps ==
    ASSUME StoreInv, NEW k \in Kernels, OpenSegment(k)
    PROVE  StoreInv'
<1> DEFINE w == kernel[k]
<1>1. w \in Kernel /\ CallOK(w) /\ OpeningOK(w)
  BY Zenon, Own 
<1>2. w.step = "open_segment" /\ w.by = "open" /\ ~w.open /\ w.dst = w.path
  BY Zenon, <1>1 DEF OpenSegment, Doing, CallOK, Parts
<1>3. UNCHANGED <<setup, disk, saved, removing>>
  BY Zenon DEF OpenSegment, Passed, Same
<1>4. CASE disk[w.path].data["segment"] = Absent
  BY Zenon, <1>2, <1>3, <1>4, AbortKeeps DEF OpenSegment, Passed, Place, Parts
<1>5. CASE disk[w.path].data["segment"] # Absent
  <2> DEFINE x == Finish(w)
  <2>1. x = [w EXCEPT !.step = "deserialize"]
    BY <1>1, <1>2, NextStep, FinishIs
  <2>2. /\ x.by = "open" /\ ~x.open /\ x.ro = w.ro /\ x.path = w.path /\ x.step = "deserialize"
    BY <1>1, <1>2, <2>1, MovedIs
  <2> HIDE DEF x
  <2>4. OpeningOK(x)
    BY Zenon, <1>1, <1>2, <1>5, <2>2 DEF OpeningOK
  <2>5. OpenOK(x) /\ BuildingOK(x) /\ UuidOK(x)
    BY Zenon, <2>2 DEF OpenOK, BuildingOK, SnapshotOK, CopyOK, UuidOK, Builds
  <2>6. kernel' = [kernel EXCEPT ![k] = x]
    BY Zenon, <1>2, <1>5 DEF OpenSegment, Passed, Proceed, Place, Parts, x
  <2> QED BY Zenon, <1>1, <1>2, <1>3, <1>5, <2>4, <2>5, <2>6, ProceedKeeps DEF SameCall, x
<1> QED BY Zenon, <1>4, <1>5

LEMMA DeserializeKeeps ==
    ASSUME StoreInv, NEW k \in Kernels, priv_deserialize_management_data(k)
    PROVE  StoreInv'
<1> DEFINE w == kernel[k]
           data == disk[w.path].data
<1>1. w \in Kernel /\ CallOK(w) /\ OpeningOK(w)
  BY Own
<1>2. w.step = "deserialize" /\ w.by = "open" /\ ~w.open /\ w.dst = w.path /\ w.path \in Paths
  BY Zenon, <1>1 DEF priv_deserialize_management_data, Doing, CallOK, Parts
<1>3. UNCHANGED <<setup, disk, saved, removing>>
  BY Zenon DEF priv_deserialize_management_data, Same
<1>4. CASE ~\A x \in Parts : data[x] # Absent
  BY Zenon, <1>2, <1>3, <1>4, AbortKeeps DEF priv_deserialize_management_data, Place, Parts
<1>5. CASE \A x \in Parts : data[x] # Absent
  <2> DEFINE y == [w EXCEPT !.mem = data]
             x == Finish(y)
  <2>1. data \in Data
    BY Zenon, <1>2 DEF StoreInv, TypeOK, Store
  <2>2. y \in Kernel /\ SameCall(y, w) /\ y.mem = data
    BY ZenonT(60), <1>1, <2>1 DEF Kernel, SameCall
  <2>3. kernel' = [kernel EXCEPT ![k] = x]
    BY Zenon, <1>2, <1>5 DEF priv_deserialize_management_data, Proceed, Place, Parts
  <2> HIDE DEF y
  <2>4. CallOK(y)
    BY ZenonT(60), <1>1, <2>2 DEF CallOK, SameCall
  <2>5. x = OpenKernel(y)
    BY <1>2, <2>2, <2>4, NextStep, FinishIs DEF SameCall
  <2>6. x.by = "none" /\ x.open /\ x.ro = w.ro /\ x.path = w.path /\ x.mem = data
    BY ZenonT(60), <1>2, <2>2, <2>5, OpenIs DEF SameCall
  <2> HIDE DEF x
  <2>7. OpenOK(x)
    BY ZenonT(60), <1>1, <1>2, <2>6 DEF OpenOK, OpeningOK
  <2>8. OpeningOK(x) /\ BuildingOK(x) /\ UuidOK(x)
    BY Zenon, <2>6, BetweenCalls 
  <2> QED BY Zenon, <1>2, <1>3, <2>2, <2>3, <2>7, <2>8, ProceedKeeps DEF SameCall, x
<1> QED BY Zenon, <1>4, <1>5

LEMMA SyncOrReleaseKeeps ==
    ASSUME StoreInv, NEW k \in Kernels, SyncOrRelease(k)
    PROVE  StoreInv'
<1> DEFINE w == kernel[k]
           x == Finish(w)
<1>1. w \in Kernel /\ CallOK(w) /\ OpenOK(w)
  BY Zenon, Own
<1>2. w.step \in {"sync", "release"} /\ w.by = "close" /\ w.open
  BY Zenon, <1>1 DEF SyncOrRelease, CallOK, Parts
<1>3. UNCHANGED <<setup, disk, saved, removing>> /\ kernel' = [kernel EXCEPT ![k] = x]
  BY Zenon DEF SyncOrRelease, Passed, Same, Proceed
<1>4. OpenOK(x) /\ OpeningOK(x) /\ BuildingOK(x) /\ UuidOK(x)
  <2>1. CASE w.step = "release" /\ w.ro
    <3>1. x = IdleKernel
      BY ZenonT(60), <1>1, <1>2, <2>1, NextStep, FinishIs
    <3> QED BY Zenon, <3>1, IdleOK
  <2>2. CASE ~(w.step = "release" /\ w.ro)
    <3>1. x = [w EXCEPT !.step = IF w.step = "sync" THEN "release" ELSE "mark"]
      BY <1>1, <1>2, <2>2, NextStep, FinishIs
    <3>2. /\ x.by = "close" /\ x.open /\ x.ro = w.ro /\ x.path = w.path
          /\ x.step = IF w.step = "sync" THEN "release" ELSE "mark"
          /\ x.mem = w.mem /\ x.intent = w.intent
      BY <1>1, <1>2, <3>1, MovedIs
    <3> HIDE DEF x
    <3>3. WrittenBefore(x.step) = WrittenBefore(w.step)
      BY Zenon, <1>2, <3>2 DEF WrittenBefore
    <3>4. OpenOK(x)
      BY <1>1, <1>2, <3>2, <3>3, ZenonT(30) DEF OpenOK
    <3> QED BY Zenon, <3>2, <3>4 DEF OpeningOK, BuildingOK, SnapshotOK, CopyOK, UuidOK, Builds
  <2> QED BY Zenon, <2>1, <2>2 
<1>5. kernel[k].step # "check"
  BY Zenon, <1>2
<1> HIDE DEF x
<1> QED BY Zenon, <1>1, <1>2, <1>3, <1>4, <1>5, ProceedKeeps DEF SameCall, x

-----------------------------------------------------------------------------
(* Calls begin.                                                            *)

LEMMA FirstStep ==
    ASSUME NEW ro \in BOOLEAN
    PROVE  /\ Steps("create", ro)["call"] = "remove"
           /\ Steps("open", ro)["call"] = "check"
           /\ Steps("close", ro)["call"] = IF ro THEN "release" ELSE "named"
           /\ Steps("snapshot", ro)["call"] = IF ro THEN "remove" ELSE "named"
           /\ Steps("copy", ro)["call"] = "check_source"
           /\ Steps("remove", ro)["call"] = "remove"
BY Zenon DEF Steps, CreateSteps, OpenSteps, CloseSteps, SnapshotSteps, CopySteps, RemoveSteps

\* What the conditions on callers say of another kernel.
LEMMA Guards ==
    ASSUME StoreInv, NEW k \in Kernels, NEW r \in OtherThan(k), NEW p \in Paths
    PROVE  /\ Quiet(p) => p \notin TargetsOf(r)
           /\ NotCopied(p) => r.src # p
           /\ NotRead(p) => ~(r.ro /\ r.path = p)
           /\ Unused(p) => /\ p \notin TargetsOf(r) /\ r.src # p
                           /\ ~(r.open /\ r.path = p) /\ ~(r.ro /\ r.path = p)
           /\ r.by \in Takes \cup {"open"} => r.dst \in TargetsOf(r)
<1>1. PICK j \in Kernels : r = kernel[j]
  BY Zenon DEF OtherThan
<1>2. r \in Kernel /\ CallOK(r)
  BY Zenon, Others
<1>3. Quiet(p) => p \notin TargetsOf(r)
  BY Zenon, <1>1 DEF Quiet, Targets
<1>4. NotCopied(p) => r.src # p
  BY Zenon, <1>1, <1>2, PathAssumption DEF NotCopied, Busy, CallOK, Parts
<1>5. NotRead(p) => ~(r.ro /\ r.path = p)
  BY Zenon, <1>1 DEF NotRead
<1>6. Unused(p) => ~(r.open /\ r.path = p)
  BY Zenon, <1>1 DEF Unused
<1>7. r.by \in Takes \cup {"open"} => r.dst \in TargetsOf(r)
  BY Zenon, <1>2 DEF CallOK, TargetsOf, Takes, Builds, Parts
<1>8. Unused(p) => ~(r.ro /\ r.path = p)
  BY Zenon, <1>2, <1>3, <1>6, <1>7 DEF Unused, CallOK
<1> QED BY Zenon, <1>3, <1>4, <1>5, <1>6, <1>7, <1>8 DEF Unused

LEMMA CreateKeeps ==
    ASSUME StoreInv, NEW k \in Kernels, NEW p \in Paths, Create(k, p) \/ Remove(k, p)
    PROVE  StoreInv'
<1>1. PICK by \in {"create", "remove"} :
          /\ Unused(p)
          /\ Begin(k, [IdleKernel EXCEPT !.by = by, !.path = p, !.dst = p])
  BY Zenon DEF Create, Remove
<1> DEFINE y == [IdleKernel EXCEPT !.by = by, !.path = p, !.dst = p]
           x == [y EXCEPT !.step = Steps(y.by, y.ro)["call"]]
<1>2. /\ y \in Kernel /\ y.by = by /\ y.path = p /\ y.dst = p /\ ~y.open /\ y.ro = FALSE
      /\ y.src = "none"
  BY ZenonT(60), IdleIs DEF Kernel
<1>3. UNCHANGED <<setup, disk, saved, removing>> /\ kernel' = [kernel EXCEPT ![k] = x]
  BY Zenon, <1>1 DEF Begin
<1> HIDE DEF y
<1>4. x = [y EXCEPT !.step = "remove"]
  BY Zenon, <1>2, FirstStep 
<1> HIDE DEF x
<1>5. /\ x \in Kernel /\ x.by = by /\ x.path = p /\ x.dst = p /\ ~x.open /\ ~x.ro
      /\ x.src = "none" /\ x.step = "remove"
  BY Zenon, <1>2, <1>4 DEF Kernel
<1>6. CallOK(x) /\ TargetsOf(x) = {p}
  BY Zenon, <1>5 DEF CallOK, TargetsOf, Parts
<1>7. ASSUME NEW r \in OtherThan(k) PROVE BothApart(r, x)
  <2>1. /\ p \notin TargetsOf(r) /\ r.src # p /\ ~(r.open /\ r.path = p) /\ ~(r.ro /\ r.path = p)
    BY Zenon, <1>1, Guards
  <2>2. r \in Kernel /\ CallOK(r)
    BY Zenon, Others
  <2>3. Apart(r, x)
    BY Zenon, <1>5, <1>6, <2>1 DEF Apart
  <2>4. Apart(x, r)
    BY Zenon, <1>5, <1>6, <2>1, <2>2, PathAssumption DEF Apart, CallOK, Takes, Builds
  <2> QED BY Zenon, <2>3, <2>4 DEF BothApart
<1>8. OpenOK(x) /\ OpeningOK(x) /\ BuildingOK(x) /\ UuidOK(x)
  BY Zenon, <1>1, <1>5 DEF OpenOK, OpeningOK, BuildingOK, SnapshotOK, CopyOK, UuidOK, Parts
<1> QED BY Zenon, <1>3, <1>5, <1>6, <1>7, <1>8, FilesAlone 

LEMMA OpenKeeps ==
    ASSUME StoreInv, NEW k \in Kernels, NEW p \in Paths, NEW ro \in BOOLEAN, Open(k, p, ro)
    PROVE  StoreInv'
<1> DEFINE y == [IdleKernel EXCEPT !.by = "open", !.path = p, !.dst = p, !.ro = ro]
           x == [y EXCEPT !.step = Steps(y.by, y.ro)["call"]]
<1>2. /\ y \in Kernel /\ y.by = "open" /\ y.path = p /\ y.dst = p /\ ~y.open /\ y.ro = ro
      /\ y.src = "none"
  BY ZenonT(60), IdleIs DEF Kernel
<1>3. UNCHANGED <<setup, disk, saved, removing>> /\ kernel' = [kernel EXCEPT ![k] = x]
  BY Zenon DEF Open, Begin
<1> HIDE DEF y
<1>4. x = [y EXCEPT !.step = "check"]
  BY ZenonT(60), <1>2, FirstStep
<1> HIDE DEF x
<1>5. /\ x \in Kernel /\ x.by = "open" /\ x.path = p /\ x.dst = p /\ ~x.open /\ x.ro = ro
      /\ x.src = "none" /\ x.step = "check"
  BY ZenonT(60), <1>2, <1>4 DEF Kernel
<1>6. CallOK(x) /\ TargetsOf(x) = {p}
  BY Zenon, <1>5 DEF CallOK, TargetsOf, Parts
<1>7. ASSUME NEW r \in OtherThan(k) PROVE BothApart(r, x)
  <2>1. /\ p \notin TargetsOf(r) /\ (~ro => r.src # p /\ ~(r.ro /\ r.path = p))
        /\ r.by \in Takes \cup {"open"} => r.dst \in TargetsOf(r)
    BY Zenon, Guards DEF Open
  <2>2. r \in Kernel /\ CallOK(r)
    BY Zenon, Others 
  <2>3. Apart(r, x)
    BY Zenon, <1>5, <1>6, <2>1 DEF Apart, Takes, Builds
  <2>4. Apart(x, r)
    BY Zenon, <1>5, <1>6, <2>1, <2>2, PathAssumption DEF Apart, CallOK, Takes, Builds
  <2> QED BY Zenon, <2>3, <2>4 DEF BothApart
<1>8. OpenOK(x) /\ OpeningOK(x) /\ BuildingOK(x) /\ UuidOK(x)
  BY Zenon, <1>5 DEF OpenOK, OpeningOK, BuildingOK, SnapshotOK, CopyOK, UuidOK, Builds
<1> QED BY Zenon, <1>3, <1>5, <1>6, <1>7, <1>8, FilesAlone 

LEMMA CopyKeeps ==
    ASSUME StoreInv, NEW k \in Kernels, NEW src \in Paths, NEW dst \in Paths, Copy(k, src, dst)
    PROVE  StoreInv'
<1> DEFINE y == [IdleKernel EXCEPT !.by = "copy", !.path = dst, !.dst = dst, !.src = src]
           x == [y EXCEPT !.step = Steps(y.by, y.ro)["call"]]
<1>2. /\ y \in Kernel /\ y.by = "copy" /\ y.path = dst /\ y.dst = dst /\ ~y.open /\ y.ro = FALSE
      /\ y.src = src
  BY Zenon, IdleIs DEF Kernel
<1>3. UNCHANGED <<setup, disk, saved, removing>> /\ kernel' = [kernel EXCEPT ![k] = x]
  BY Zenon DEF Copy, Begin
<1> HIDE DEF y
<1>4. x = [y EXCEPT !.step = "check_source"]
  BY Zenon, <1>2, FirstStep 
<1> HIDE DEF x
<1>5. /\ x \in Kernel /\ x.by = "copy" /\ x.path = dst /\ x.dst = dst /\ ~x.open /\ ~x.ro
      /\ x.src = src /\ x.step = "check_source"
  BY Zenon, <1>2, <1>4 DEF Kernel
<1>6. CallOK(x) /\ TargetsOf(x) = {dst}
  BY Zenon, <1>5 DEF CallOK, TargetsOf, Parts, Copy
<1>7. ASSUME NEW r \in OtherThan(k) PROVE BothApart(r, x)
  <2>1. /\ dst \notin TargetsOf(r) /\ r.src # dst
        /\ ~(r.open /\ r.path = dst) /\ ~(r.ro /\ r.path = dst)
        /\ src \notin TargetsOf(r)
        /\ r.by \in Takes \cup {"open"} => r.dst \in TargetsOf(r)
    BY Zenon, Guards DEF Copy
  <2>3. Apart(r, x)
    BY Zenon, <1>5, <1>6, <2>1 DEF Apart
  <2>4. Apart(x, r)
    BY Zenon, <1>5, <1>6, <2>1 DEF Apart
  <2> QED BY Zenon, <2>3, <2>4 DEF BothApart
<1>8. OpenOK(x) /\ OpeningOK(x) /\ BuildingOK(x) /\ UuidOK(x)
  BY Zenon, <1>5 DEF OpenOK, OpeningOK, BuildingOK, SnapshotOK, CopyOK, UuidOK
<1> QED BY Zenon, <1>3, <1>5, <1>6, <1>7, <1>8, FilesAlone 

LEMMA CloseKeeps ==
    ASSUME StoreInv, NEW k \in Kernels, Close(k)
    PROVE  StoreInv'
<1> DEFINE w == kernel[k]
           y == [w EXCEPT !.by = "close", !.dst = w.path, !.intent = w.mem]
           x == [y EXCEPT !.step = Steps(y.by, y.ro)["call"]]
<1>1. /\ w \in Kernel /\ CallOK(w) /\ OpenOK(w)
      /\ w.by = "none" /\ w.src = "none" /\ w.open /\ w.path \in Paths /\ w.ro \in BOOLEAN
  BY ZenonT(60), Own DEF Close, Ready, Busy, CallOK, Parts, Kernel
<1>2. /\ y \in Kernel /\ y.by = "close" /\ y.path = w.path /\ y.dst = w.path /\ y.open
      /\ y.ro = w.ro /\ y.src = "none" /\ y.mem = w.mem /\ y.intent = w.mem
  BY ZenonT(60), <1>1 DEF Kernel
<1>3. UNCHANGED <<setup, disk, saved, removing>> /\ kernel' = [kernel EXCEPT ![k] = x]
  BY Zenon DEF Close, Begin
<1> HIDE DEF y
<1>4. x = [y EXCEPT !.step = IF w.ro THEN "release" ELSE "named"]
  BY ZenonT(60), <1>1, <1>2, FirstStep
<1> HIDE DEF x
<1>5. /\ x \in Kernel /\ x.by = "close" /\ x.path = w.path /\ x.dst = w.path /\ x.open
      /\ x.ro = w.ro /\ x.src = "none" /\ x.mem = w.mem /\ x.intent = w.mem
      /\ x.step = IF w.ro THEN "release" ELSE "named"
  BY ZenonT(60), <1>2, <1>4 DEF Kernel, Parts
<1>6. CallOK(x) /\ TargetsOf(x) = {w.path}
  BY Zenon, <1>1, <1>5 DEF CallOK, TargetsOf, Parts
<1>7. ASSUME NEW r \in OtherThan(k) PROVE BothApart(r, x)
  <2>1. /\ w.path \notin TargetsOf(r)
        /\ r.by \in Takes \cup {"open"} => r.dst \in TargetsOf(r)
    BY Zenon, <1>1, Guards DEF Close
  <2>2. r \in Kernel /\ CallOK(r) /\ BothApart(r, w)
    BY Zenon, Others 
  <2>3. Apart(r, x)
    BY Zenon, <1>1, <1>5, <1>6, <2>1, <2>2 DEF Apart, BothApart, Takes, Builds
  <2>4. Apart(x, r)
    BY Zenon, <1>1, <1>5, <1>6, <2>1, <2>2 DEF Apart, BothApart
  <2> QED BY Zenon, <2>3, <2>4 DEF BothApart
<1>8. OpenOK(x)
  BY ZenonT(60), <1>1, <1>5 DEF OpenOK, WrittenBefore
<1>9. OpeningOK(x) /\ BuildingOK(x) /\ UuidOK(x)
  BY Zenon, <1>5 DEF OpeningOK, BuildingOK, SnapshotOK, CopyOK, UuidOK, Builds
<1> QED BY Zenon, <1>3, <1>5, <1>6, <1>7, <1>8, <1>9, FilesAlone 

LEMMA SnapshotKeeps ==
    ASSUME StoreInv, NEW k \in Kernels, NEW dst \in Paths, Snapshot(k, dst)
    PROVE  StoreInv'
<1> DEFINE w == kernel[k]
           y == [w EXCEPT !.by = "snapshot", !.src = w.path, !.dst = dst, !.intent = w.mem]
           x == [y EXCEPT !.step = Steps(y.by, y.ro)["call"]]
<1>1. /\ w \in Kernel /\ CallOK(w) /\ OpenOK(w)
      /\ w.by = "none" /\ w.open /\ w.path \in Paths /\ w.ro \in BOOLEAN
      /\ dst # w.path
  BY ZenonT(60), Own DEF Snapshot, Ready, Busy, Unused, CallOK, Parts, Kernel
<1>2. /\ y \in Kernel /\ y.by = "snapshot" /\ y.path = w.path /\ y.dst = dst /\ y.open
      /\ y.ro = w.ro /\ y.src = w.path /\ y.mem = w.mem /\ y.intent = w.mem
  BY ZenonT(60), <1>1 DEF Kernel
<1>3. UNCHANGED <<setup, disk, saved, removing>> /\ kernel' = [kernel EXCEPT ![k] = x]
  BY Zenon DEF Snapshot, Begin
<1> HIDE DEF y
<1>4. x = [y EXCEPT !.step = IF w.ro THEN "remove" ELSE "named"]
  BY ZenonT(60), <1>1, <1>2, FirstStep
<1> HIDE DEF x
<1>5. /\ x \in Kernel /\ x.by = "snapshot" /\ x.path = w.path /\ x.dst = dst /\ x.open
      /\ x.ro = w.ro /\ x.src = w.path /\ x.mem = w.mem /\ x.intent = w.mem
      /\ x.step = IF w.ro THEN "remove" ELSE "named"
  BY ZenonT(60), <1>2, <1>4 DEF Kernel, Parts
<1>6. CallOK(x) /\ TargetsOf(x) \subseteq {w.path, dst}
  BY Zenon, <1>1, <1>5 DEF CallOK, TargetsOf, Parts
<1>7. ASSUME NEW r \in OtherThan(k) PROVE BothApart(r, x)
  <2>1. /\ w.path \notin TargetsOf(r) /\ dst \notin TargetsOf(r) /\ r.src # dst
        /\ ~(r.open /\ r.path = dst) /\ ~(r.ro /\ r.path = dst)
        /\ r.by \in Takes \cup {"open"} => r.dst \in TargetsOf(r)
    BY Zenon, <1>1, Guards DEF Snapshot
  <2>2. r \in Kernel /\ CallOK(r) /\ BothApart(r, w)
    BY Zenon, Others 
  <2>3. Apart(r, x)
    BY Zenon, <1>1, <1>5, <1>6, <2>1, <2>2 DEF Apart, BothApart
  <2>4. Apart(x, r)
    BY Zenon, <1>1, <1>5, <1>6, <2>1, <2>2 DEF Apart, BothApart
  <2> QED BY Zenon, <2>3, <2>4 DEF BothApart
<1>8. OpenOK(x)
  BY ZenonT(60), <1>1, <1>5 DEF OpenOK, WrittenBefore
<1>9. OpeningOK(x) /\ BuildingOK(x) /\ UuidOK(x)
  BY Zenon, <1>5 DEF OpeningOK, BuildingOK, SnapshotOK, CopyOK, UuidOK, Parts
<1> QED BY Zenon, <1>3, <1>5, <1>6, <1>7, <1>8, <1>9, FilesAlone 

-----------------------------------------------------------------------------
(* Steps that write the store they work on.                                *)

\* The store of a step is a store the kernel may write.
LEMMA PlaceIs ==
    ASSUME NEW k \in Kernels, kernel[k] \in Kernel, CallOK(kernel[k])
    PROVE  /\ kernel[k].by \in Takes /\ kernel[k].step \notin Parts =>
                  Place(k) = kernel[k].dst /\ WritesTo(kernel[k], Place(k))
           /\ kernel[k].by = "open" /\ kernel[k].step = "unmark" =>
                  Place(k) = kernel[k].path /\ WritesTo(kernel[k], Place(k))
           /\ kernel[k].by = "close" /\ ~kernel[k].ro =>
                  Place(k) = kernel[k].path /\ WritesTo(kernel[k], Place(k))
           /\ kernel[k].by = "snapshot" /\ kernel[k].step \in Parts =>
                  Place(k) = kernel[k].path /\ WritesTo(kernel[k], Place(k))
           /\ kernel[k].by # "none" => Place(k) \in Paths
BY Zenon DEF Place, WritesTo, CallOK, Takes, Builds, Parts

\* A step that changes store p, gives no UUID and goes on.
LEMMA WriteKeeps ==
    ASSUME StoreInv, NEW k \in Kernels, NEW p \in Paths, WritesTo(kernel[k], p),
           NEW s \in Store, disk' = [disk EXCEPT ![p] = s], s.uuid \in {Absent, disk[p].uuid},
           NEW x \in Kernel, CallOK(x), kernel' = [kernel EXCEPT ![k] = x],
           \A r \in OtherThan(k) : BothApart(r, x),
           setup' = setup, saved' \in [Paths -> Data], removing' \subseteq Paths,
           \A q \in Paths \ {p} : saved'[q] = saved[q] /\ (q \in removing' <=> q \in removing),
           StoreOK(p)', OpenOK(x)', OpeningOK(x)', BuildingOK(x)', UuidOK(x)'
    PROVE  StoreInv'
<1>1. disk \in [Paths -> Store]
  BY Zenon DEF StoreInv, TypeOK
<1>2. disk' \in [Paths -> Store] /\ OnlyAt(p) /\ disk'[p] = s
  BY Zenon, <1>1 DEF OnlyAt
<1>3. ASSUME NEW r \in OtherThan(k) PROVE UuidOK(r)'
  <2>1. r \in Kernel /\ CallOK(r) /\ KernelOK(r) /\ BothApart(r, kernel[k])
    BY Zenon, Others 
  <2>2. kernel[k] \in Kernel /\ CallOK(kernel[k]) /\ OpenOK(kernel[k])
    BY Zenon, Own 
  <2>3. ~Uses(r, p)
    BY Zenon, <2>1, <2>2, NotUsed DEF KernelOK
  <2> QED BY Zenon, <1>2, <2>1, <2>3, UuidKept DEF KernelOK
<1> QED BY Zenon, <1>2, <1>3, StepKeeps 

\* A kernel that makes or removes a store keeps what it has open, and a copy
\* the store it copies.
LEMMA BuilderKept ==
    ASSUME NEW w \in Kernel, CallOK(w), w.by \in Takes, w.step \notin Parts, OnlyAt(w.dst), OpenOK(w),
           NEW x, x.by = w.by, x.open = w.open, x.ro = w.ro, x.path = w.path,
           x.step \notin Parts, x.mem = w.mem \/ ~w.open, x.intent = w.intent
    PROVE  OpenOK(x)' /\ OpeningOK(x)'
<1>1. OpenOK(x)'
  <2> SUFFICES ASSUME w.open PROVE OpenOK(x)'
    BY Zenon DEF OpenOK
  <2>1. w.path \in Paths \ {w.dst}
    BY Zenon DEF CallOK, Takes, Builds
  <2>2. disk'[w.path] = disk[w.path] /\ saved'[w.path] = saved[w.path]
    BY Zenon, <2>1 DEF OnlyAt
  <2>3. WrittenBefore(x.step) = Parts /\ WrittenBefore(w.step) = Parts
    BY Zenon DEF WrittenBefore, Parts
  <2>4. w.by # "none" /\ x.mem = w.mem
    BY Zenon DEF Takes, Builds
  <2> QED BY <2>2, <2>3, <2>4 DEF OpenOK
<1>2. OpeningOK(x)'
  BY Zenon DEF OpeningOK, Takes, Builds
<1> QED BY Zenon, <1>1, <1>2 

LEMMA SourceKept ==
    ASSUME NEW w \in Kernel, CallOK(w), w.by = "copy", w.step # "check_source", OnlyAt(w.dst), CopyOK(w)
    PROVE  /\ disk'[w.src] = disk[w.src] /\ saved'[w.src] = saved[w.src]
           /\ w.src \in removing' <=> w.src \in removing
           /\ disk'[w.src].mark /\ w.intent = saved'[w.src]
<1>1. w.src \in Paths \ {w.dst}
  BY Zenon DEF CallOK
<1> QED BY Zenon, <1>1 DEF OnlyAt, CopyOK

LEMMA RemoveOneKeeps ==
    ASSUME StoreInv, NEW k \in Kernels, RemoveOne(k)
    PROVE  StoreInv'
<1>0. PICK w : w = kernel[k]
  OBVIOUS
<1> DEFINE p == w.dst
<1>1. w \in Kernel /\ CallOK(w) /\ OpenOK(w) /\ CopyOK(w) /\ w.step = "remove"
  BY Zenon, <1>0, Own DEF RemoveOne, Doing
<1>2. w.by \in Takes /\ w.step \notin Parts /\ Place(k) = p /\ WritesTo(w, p) /\ p \in Paths
  BY Zenon, <1>0, <1>1, PlaceIs DEF CallOK, Parts, Takes, Builds
<1>3. disk[p] \in Store /\ StoreOK(p)
  BY Zenon, <1>2 DEF StoreInv, TypeOK
<1>4. PICK s \in Store :
          /\ disk' = [disk EXCEPT ![p] = s]
          /\ \/ s.version = disk[p].version /\ s.uuid = disk[p].uuid
             \/ s.version = "none" /\ s.uuid = Absent
          /\ s.mark => disk[p].mark
          /\ s.data = disk[p].data \/ s.data["segment"] = Absent
  <2>1. CASE disk' = [disk EXCEPT ![p].mark = FALSE]
    <3> DEFINE s == [disk[p] EXCEPT !.mark = FALSE]
    <3>1. /\ s \in Store /\ s.version = disk[p].version /\ s.uuid = disk[p].uuid
          /\ ~s.mark /\ s.data = disk[p].data
      BY Zenon, <1>3 DEF Store
    <3>2. disk' = [disk EXCEPT ![p] = s]
      BY Zenon, <2>1
    <3> QED BY Zenon, <3>1, <3>2 
  <2>2. CASE disk' = [disk EXCEPT ![p].version = "none", ![p].uuid = Absent]
    <3> DEFINE s == [disk[p] EXCEPT !.version = "none", !.uuid = Absent]
    <3>1. /\ s \in Store /\ s.version = "none" /\ s.uuid = Absent
          /\ s.mark = disk[p].mark /\ s.data = disk[p].data
      BY Zenon, <1>3 DEF Store, Absent
    <3>2. disk' = [disk EXCEPT ![p] = s]
      BY Zenon, <1>2, <2>2 DEF StoreInv, TypeOK
    <3> QED BY Zenon, <3>1, <3>2 
  <2>3. CASE disk' = [disk EXCEPT ![p].data = NoData]
    <3> DEFINE s == [disk[p] EXCEPT !.data = NoData]
    <3>1. NoData \in Data /\ NoData["segment"] = Absent
      BY DEF NoData, Data, Items, Absent
    <3>2. /\ s \in Store /\ s.version = disk[p].version /\ s.uuid = disk[p].uuid
          /\ s.mark = disk[p].mark /\ s.data = NoData
      BY Zenon, <1>3, <3>1 DEF Store
    <3> QED BY Zenon, <2>3, <3>1, <3>2 
  <2>4. CASE disk' = [disk EXCEPT ![p].data["segment"] = Absent]
    <3> DEFINE d == [disk[p].data EXCEPT !["segment"] = Absent]
               s == [disk[p] EXCEPT !.data = d]
    <3>1. d \in Data /\ d["segment"] = Absent
      BY <1>3 DEF Store, Data, Items, Absent
    <3>2. disk' = [disk EXCEPT ![p] = s]
      BY Zenon, <2>4
    <3> HIDE DEF d
    <3>3. /\ s \in Store /\ s.version = disk[p].version /\ s.uuid = disk[p].uuid
          /\ s.mark = disk[p].mark /\ s.data = d
      BY Zenon, <1>3, <3>1 DEF Store
    <3> QED BY Zenon, <3>1, <3>2, <3>3 
  <2> QED BY Zenon, <1>2, <2>1, <2>2, <2>3, <2>4 DEF RemoveOne
<1>5. /\ UNCHANGED <<setup, saved, kernel>> /\ removing' = removing \cup {p}
      /\ kernel' = [kernel EXCEPT ![k] = w]
  BY Zenon, <1>0, <1>2 DEF RemoveOne, StoreInv, TypeOK
<1>6. OnlyAt(p) /\ disk'[p] = s
  BY Zenon, <1>2, <1>4, <1>5 DEF OnlyAt, StoreInv, TypeOK
<1>7. StoreOK(p)'
  BY Zenon, <1>3, <1>4, <1>5, <1>6 DEF StoreOK
<1>8. OpenOK(w)' /\ OpeningOK(w)'
  BY Zenon, <1>1, <1>2, <1>6, BuilderKept 
<1>9. CopyOK(w)'
  BY Zenon, <1>1, <1>6, SourceKept DEF CopyOK
<1>10. BuildingOK(w)' /\ UuidOK(w)'
  BY Zenon, <1>1, <1>9, <1>5 DEF BuildingOK, SnapshotOK, UuidOK
<1>11. \A r \in OtherThan(k) : BothApart(r, w)
  BY Zenon, <1>0, Others
<1>12. saved \in [Paths -> Data] /\ removing \subseteq Paths
  BY Zenon DEF StoreInv, TypeOK
<1> QED BY Zenon, <1>0, <1>1, <1>2, <1>3, <1>4, <1>5, <1>6, <1>7, <1>8, <1>10, <1>11, <1>12,
           WriteKeeps 

\* The next step of a call that goes on.
LEMMA GoesOn ==
    ASSUME StoreInv, NEW k \in Kernels, NEW w, w = kernel[k], w.by # "none", w.step # "check",
           NEW y \in Kernel, SameCall(y, w), NEW n, n = Steps(w.by, w.ro)[w.step], n # "return",
           NEW x, x = Finish(y)
    PROVE  /\ x \in Kernel /\ CallOK(x)
           /\ x.by = w.by /\ x.step = n /\ x.open = w.open /\ x.ro = w.ro
           /\ x.path = w.path /\ x.dst = w.dst /\ x.src = w.src
           /\ x.mem = y.mem /\ x.intent = y.intent
           /\ \A r \in OtherThan(k) : BothApart(r, x)
<1>1. CallOK(y)
  BY Zenon, Own, SameCallIs 
<1>2. x = [y EXCEPT !.step = n] /\ x \in Kernel /\ CallOK(x)
  BY ZenonT(60), <1>1, FinishIs DEF SameCall
<1>3. \A r \in OtherThan(k) : BothApart(r, x)
  BY Zenon, ApartFinish DEF SameCall
<1> QED BY <1>2, <1>3, MovedIs DEF SameCall

LEMMA StepsOn ==
    ASSUME StoreInv, NEW k \in Kernels, kernel[k].by # "none", kernel[k].step # "check",
           Steps(kernel[k].by, kernel[k].ro)[kernel[k].step] # "return"
    PROVE  LET w == kernel[k]  x == Finish(w) IN
           /\ x \in Kernel /\ CallOK(x)
           /\ x.by = w.by /\ x.step = Steps(w.by, w.ro)[w.step] /\ x.open = w.open /\ x.ro = w.ro
           /\ x.path = w.path /\ x.dst = w.dst /\ x.src = w.src
           /\ x.mem = w.mem /\ x.intent = w.intent
           /\ \A r \in OtherThan(k) : BothApart(r, x)
<1>1. PICK w : w = kernel[k]
  OBVIOUS
<1>2. w \in Kernel /\ SameCall(w, w)
  BY Zenon, <1>1, Own DEF SameCall
<1>3. PICK x : x = Finish(w)
  OBVIOUS
<1>4. PICK n : n = Steps(w.by, w.ro)[w.step]
  OBVIOUS
<1> QED BY <1>1, <1>2, <1>3, <1>4, GoesOn

\* A step of a call that makes a store; the store is not marked yet.
LEMMA BuildKeeps ==
    ASSUME StoreInv, NEW k \in Kernels, NEW w, w = kernel[k], w.by \in Builds, w.step \notin Parts,
           w.step # "write_metadata",
           NEW y \in Kernel, SameCall(y, w), y.intent = w.intent, y.mem = w.mem \/ ~w.open,
           NEW n, n = Steps(w.by, w.ro)[w.step], n # "return", NEW x, x = Finish(y),
           NEW s \in Store, disk' = [disk EXCEPT ![w.dst] = s], s.uuid \in {Absent, disk[w.dst].uuid},
           ~s.mark, s.version # "none" => s.uuid # Absent,
           kernel' = [kernel EXCEPT ![k] = x], UNCHANGED <<setup, saved>>, removing' \subseteq Paths,
           \A q \in Paths \ {w.dst} : q \in removing' <=> q \in removing,
           BuildingOK(x)'
    PROVE  StoreInv'
<1>1. w \in Kernel /\ CallOK(w) /\ OpenOK(w)
  BY Zenon, Own
<1>2. w.by \in Takes /\ WritesTo(w, w.dst) /\ w.dst \in Paths /\ w.by # "none" /\ w.step # "check"
  BY Zenon, <1>1 DEF CallOK, Takes, Builds, WritesTo
<1>3. /\ x \in Kernel /\ CallOK(x)
      /\ x.by = w.by /\ x.step = n /\ x.open = w.open /\ x.ro = w.ro
      /\ x.path = w.path /\ x.mem = y.mem /\ x.intent = y.intent
      /\ \A r \in OtherThan(k) : BothApart(r, x)
  BY <1>2, GoesOn
<1>4. n \notin Parts /\ ~(x.by = "snapshot" /\ n = "mark")
  <2>1. CASE w.by = "create"
    BY ZenonT(60), <1>1, <1>3, <2>1, NextStep DEF CallOK, Parts
  <2>2. CASE w.by = "copy"
    BY ZenonT(60), <1>1, <1>3, <2>2, NextStep DEF CallOK, Parts
  <2>3. CASE w.by = "snapshot"
    <3>1. w.step \in {"remove", "create_root", "create_mng", "snapshot_segment", "copy_mng", "mark"}
      BY Zenon, <1>1, <2>3 DEF CallOK
    <3> QED BY <1>1, <1>3, <2>3, <3>1, NextStep DEF Parts
  <2> QED BY Zenon, <2>1, <2>2, <2>3 DEF Builds
<1>5. disk \in [Paths -> Store] /\ saved' \in [Paths -> Data]
  BY Zenon DEF StoreInv, TypeOK
<1>6. OnlyAt(w.dst) /\ disk'[w.dst] = s
  BY Zenon, <1>2, <1>5 DEF OnlyAt
<1>7. OpenOK(x)' /\ OpeningOK(x)'
  BY ZenonT(60), <1>1, <1>2, <1>3, <1>4, <1>6, BuilderKept 
<1>8. UuidOK(x)'
  BY Zenon, <1>3, <1>4 DEF UuidOK
<1>9. StoreOK(w.dst)'
  BY Zenon, <1>6 DEF StoreOK
<1>10. \A q \in Paths \ {w.dst} : saved'[q] = saved[q] /\ (q \in removing' <=> q \in removing)
  OBVIOUS
<1> QED BY Zenon, <1>2, <1>3, <1>5, <1>7, <1>8, <1>9, <1>10, WriteKeeps 

\* A field of a store changes.
LEMMA StoreBits ==
    ASSUME NEW s \in Store, NEW b \in BOOLEAN
    PROVE  /\ LET t == [s EXCEPT !.mark = b] IN
              /\ t \in Store /\ t.mark = b /\ t.version = s.version /\ t.uuid = s.uuid /\ t.data = s.data
           /\ LET t == [s EXCEPT !.root = b] IN
              /\ t \in Store /\ t.mark = s.mark /\ t.version = s.version /\ t.uuid = s.uuid
              /\ t.data = s.data
           /\ LET t == [s EXCEPT !.mng = b] IN
              /\ t \in Store /\ t.mark = s.mark /\ t.version = s.version /\ t.uuid = s.uuid
              /\ t.data = s.data
BY Zenon DEF Store

LEMMA StoreData ==
    ASSUME NEW s \in Store, NEW d \in Data
    PROVE  LET t == [s EXCEPT !.data = d] IN
           /\ t \in Store /\ t.mark = s.mark /\ t.version = s.version /\ t.uuid = s.uuid
           /\ t.data = d /\ s.data \in Data
BY Zenon DEF Store

LEMMA RemoveLastKeeps ==
    ASSUME StoreInv, NEW k \in Kernels, RemoveLast(k)
    PROVE  StoreInv'
<1>0. PICK w : w = kernel[k]
  OBVIOUS
<1> DEFINE p == w.dst
<1>1. w \in Kernel /\ CallOK(w) /\ OpenOK(w) /\ CopyOK(w) /\ w.step = "remove"
  BY ZenonT(60), <1>0, Own DEF RemoveLast, Doing
<1>2. w.by \in Takes /\ w.step \notin Parts /\ Place(k) = p /\ WritesTo(w, p) /\ p \in Paths
  BY <1>0, <1>1, PlaceIs DEF CallOK, Parts, Takes, Builds
<1>3. EmptyStore \in Store /\ ~EmptyStore.mark /\ EmptyStore.version = "none" /\ EmptyStore.uuid = Absent
  BY DEF EmptyStore, Store, NoData, Data, Absent
<1>4. PICK x : x = Finish(w)
  BY Zenon 
<1>5. /\ disk' = [disk EXCEPT ![p] = EmptyStore] /\ removing' = removing \cup {p}
      /\ UNCHANGED <<setup, saved>> /\ kernel' = [kernel EXCEPT ![k] = x]
  BY Zenon, <1>0, <1>2, <1>4 DEF RemoveLast, Proceed
<1>6. /\ disk \in [Paths -> Store] /\ saved \in [Paths -> Data] /\ removing \subseteq Paths
  BY Zenon DEF StoreInv, TypeOK
<1>7. OnlyAt(p) /\ disk'[p] = EmptyStore
  BY Zenon, <1>2, <1>5, <1>6 DEF OnlyAt
<1>8. SameCall(w, w)
  BY Zenon DEF SameCall
<1>9. CASE w.by = "remove"
  <2>1. x = IdleKernel
    BY ZenonT(60), <1>1, <1>4, <1>9, NextStep, FinishIs
  <2>2. x \in Kernel /\ CallOK(x) /\ OpenOK(x)' /\ OpeningOK(x)' /\ BuildingOK(x)' /\ UuidOK(x)'
    BY Zenon, <2>1, IdleIs, IdleOK
  <2>3. \A r \in OtherThan(k) : BothApart(r, x)
    BY Zenon, <2>1, Others, ApartIdle
  <2>4. StoreOK(p)'
    BY Zenon, <1>3, <1>7 DEF StoreOK
  <2> QED BY Zenon, <1>0, <1>2, <1>3, <1>5, <1>6, <2>2, <2>3, <2>4, WriteKeeps 
<1>10. CASE w.by \in Builds
  <2>1. Steps(w.by, w.ro)[w.step] = "create_root"
    BY ZenonT(60), <1>1, <1>10, NextStep DEF Builds
  <2>2. x.by = w.by /\ x.step = "create_root" /\ x.dst = w.dst /\ x.src = w.src /\ x.intent = w.intent
    BY ZenonT(60), <1>0, <1>1, <1>4, <1>10, <2>1, StepsOn DEF Builds
  <2>3. CopyOK(x)'
    BY ZenonT(60), <1>1, <1>7, <2>2, SourceKept DEF CopyOK
  <2>4. BuildingOK(x)'
    BY Zenon, <1>3, <1>7, <2>2, <2>3 DEF BuildingOK, SnapshotOK
  <2> QED BY Zenon, <1>0, <1>1, <1>2, <1>3, <1>4, <1>5, <1>6, <1>8, <1>10, <2>1, <2>4, BuildKeeps 
<1> QED BY Zenon, <1>2, <1>9, <1>10 DEF Takes

LEMMA CreateRootKeeps ==
    ASSUME StoreInv, NEW k \in Kernels, CreateRoot(k)
    PROVE  StoreInv'
<1>0. PICK w : w = kernel[k]
  OBVIOUS
<1> DEFINE p == w.dst
<1>1. w \in Kernel /\ CallOK(w) /\ BuildingOK(w) /\ CopyOK(w) /\ w.step = "create_root"
  BY Zenon, <1>0, Own DEF CreateRoot, Doing
<1>2. w.by \in Builds /\ w.step \notin Parts /\ Place(k) = p /\ p \in Paths
  BY Zenon, <1>0, <1>1, PlaceIs DEF CallOK, Parts, Takes, Builds
<1>3. disk[p] \in Store /\ ~disk[p].mark /\ StoreOK(p)
  BY Zenon, <1>1, <1>2 DEF StoreInv, TypeOK, BuildingOK
<1>4. PICK s : s = [disk[p] EXCEPT !.root = TRUE]
  BY Zenon 
<1>5. s \in Store /\ ~s.mark /\ s.uuid = disk[p].uuid /\ (s.version # "none" => s.uuid # Absent)
  BY Zenon, <1>3, <1>4, StoreBits DEF StoreOK
<1>6. PICK x : x = Finish(w)
  OBVIOUS
<1>7. /\ disk' = [disk EXCEPT ![p] = s] /\ UNCHANGED <<setup, saved>>
      /\ removing' = IF w.src \in removing THEN removing \cup {p} ELSE removing \ {p}
      /\ kernel' = [kernel EXCEPT ![k] = x]
  BY Zenon, <1>0, <1>2, <1>4, <1>6 DEF CreateRoot, Proceed
<1>8. /\ disk \in [Paths -> Store] /\ removing \subseteq Paths
  BY Zenon DEF StoreInv, TypeOK
<1>9. OnlyAt(p) /\ disk'[p] = s
  BY Zenon, <1>2, <1>7, <1>8 DEF OnlyAt
<1>10. SameCall(w, w)
  BY DEF SameCall
<1>11. PICK n \in {"copy_segment", "create_mng"} :
           n = Steps(w.by, w.ro)[w.step] /\ (n = "copy_segment" <=> w.by = "copy")
  BY ZenonT(60), <1>1, <1>2, NextStep DEF Builds
<1>12. x.by = w.by /\ x.step = n /\ x.dst = w.dst /\ x.src = w.src /\ x.intent = w.intent
  BY ZenonT(60), <1>0, <1>1, <1>2, <1>6, <1>11, StepsOn DEF Builds
<1>13. CopyOK(x)'
  <2> SUFFICES ASSUME w.by = "copy" PROVE CopyOK(x)'
    BY Zenon, <1>12 DEF CopyOK
  <2>1. /\ w.src \in removing' <=> w.src \in removing
        /\ disk'[w.src].mark /\ w.intent = saved'[w.src]
    BY Zenon, <1>1, <1>9, SourceKept 
  <2>2. w.src \in removing' => w.dst \in removing'
    BY Zenon, <1>7, <2>1 
  <2> QED BY Zenon, <1>11, <1>12, <2>1, <2>2 DEF CopyOK
<1>14. BuildingOK(x)'
  BY Zenon, <1>5, <1>9, <1>12, <1>13 DEF BuildingOK, SnapshotOK
<1>15. removing' \subseteq Paths /\ \A q \in Paths \ {p} : q \in removing' <=> q \in removing
  BY Zenon, <1>2, <1>7, <1>8 
<1> QED BY Zenon, <1>0, <1>1, <1>2, <1>5, <1>6, <1>7, <1>10, <1>11, <1>14, <1>15, BuildKeeps 

LEMMA CreateMngKeeps ==
    ASSUME StoreInv, NEW k \in Kernels, CreateMng(k)
    PROVE  StoreInv'
<1>0. PICK w : w = kernel[k]
  OBVIOUS
<1> DEFINE p == w.dst
<1>1. w \in Kernel /\ CallOK(w) /\ BuildingOK(w) /\ CopyOK(w) /\ w.step = "create_mng"
  BY Zenon, <1>0, Own DEF CreateMng, Doing
<1>2. w.by \in Builds /\ w.step \notin Parts /\ Place(k) = p /\ p \in Paths
  BY Zenon, <1>0, <1>1, PlaceIs DEF CallOK, Parts, Takes, Builds
<1>3. disk[p] \in Store /\ ~disk[p].mark /\ StoreOK(p)
  BY Zenon, <1>1, <1>2 DEF StoreInv, TypeOK, BuildingOK
<1>4. PICK s : s = [disk[p] EXCEPT !.mng = TRUE]
  BY Zenon 
<1>5. /\ s \in Store /\ ~s.mark /\ s.uuid = disk[p].uuid /\ s.data = disk[p].data
      /\ s.version # "none" => s.uuid # Absent
  BY Zenon, <1>3, <1>4, StoreBits DEF StoreOK
<1>6. PICK x : x = Finish(w)
  OBVIOUS
<1>7. /\ disk' = [disk EXCEPT ![p] = s] /\ UNCHANGED <<setup, saved, removing>>
      /\ kernel' = [kernel EXCEPT ![k] = x]
  BY Zenon, <1>0, <1>2, <1>4, <1>6 DEF CreateMng, Proceed, Same
<1>8. /\ disk \in [Paths -> Store] /\ removing \subseteq Paths
  BY DEF StoreInv, TypeOK
<1>9. OnlyAt(p) /\ disk'[p] = s
  BY Zenon, <1>2, <1>7, <1>8 DEF OnlyAt
<1>10. SameCall(w, w)
  BY DEF SameCall
<1>11. PICK n \in {"unmark", "copy_mng", "snapshot_segment"} :
           n = Steps(w.by, w.ro)[w.step] /\ (n = "copy_mng" <=> w.by = "copy")
  BY ZenonT(60), <1>1, <1>2, NextStep DEF Builds
<1>12. x.by = w.by /\ x.step = n /\ x.dst = w.dst /\ x.src = w.src /\ x.intent = w.intent
  BY ZenonT(60), <1>0, <1>1, <1>2, <1>6, <1>11, StepsOn DEF Builds
<1>13. CopyOK(x)'
  <2> SUFFICES ASSUME w.by = "copy" PROVE CopyOK(x)'
    BY Zenon, <1>12 DEF CopyOK
  <2>1. disk'[w.src] = disk[w.src] /\ disk'[w.src].mark /\ w.intent = saved'[w.src]
    BY Zenon, <1>1, <1>9, SourceKept 
  <2>2. /\ w.src \in removing => w.dst \in removing
        /\ s.data["segment"] = disk[w.src].data["segment"]
    BY ZenonT(60), <1>1, <1>5 DEF CopyOK
  <2>3. x.step = "copy_mng"
    BY Zenon, <1>11, <1>12
  <2> QED BY ZenonT(60), <1>7, <1>9, <1>12, <2>1, <2>2, <2>3 DEF CopyOK
<1>14. SnapshotOK(x)'
  BY Zenon, <1>11, <1>12 DEF SnapshotOK
<1>15. BuildingOK(x)'
  BY Zenon, <1>5, <1>9, <1>11, <1>12, <1>13, <1>14 DEF BuildingOK
<1>16. removing' \subseteq Paths /\ \A q \in Paths \ {p} : q \in removing' <=> q \in removing
  BY Zenon, <1>7, <1>8 
<1> QED BY Zenon, <1>0, <1>1, <1>2, <1>5, <1>6, <1>7, <1>10, <1>11, <1>15, <1>16, BuildKeeps 

LEMMA UnmarkKeeps ==
    ASSUME StoreInv, NEW k \in Kernels, priv_unmark_properly_closed(k)
    PROVE  StoreInv'
<1>0. PICK w : w = kernel[k]
  OBVIOUS
<1> DEFINE p == w.dst
<1>1. /\ w \in Kernel /\ CallOK(w) /\ BuildingOK(w) /\ OpeningOK(w) /\ w.step = "unmark"
  BY Zenon, <1>0, Own DEF priv_unmark_properly_closed, Doing
<1>2. /\ w.by \in {"create", "open"} /\ (w.by = "open" => ~w.ro) /\ ~w.open
      /\ w.path = p /\ Place(k) = p /\ WritesTo(w, p) /\ p \in Paths
  BY Zenon, <1>0, <1>1, PlaceIs DEF CallOK, Parts, Takes, Builds
<1>3. disk[p] \in Store /\ StoreOK(p)
  BY Zenon, <1>2 DEF StoreInv, TypeOK
<1>4. PICK s : s = [disk[p] EXCEPT !.mark = FALSE]
  BY Zenon 
<1>5. /\ s \in Store /\ ~s.mark /\ s.uuid = disk[p].uuid /\ s.data = disk[p].data
      /\ s.version = disk[p].version /\ (s.version # "none" => s.uuid # Absent)
  BY Zenon, <1>3, <1>4, StoreBits DEF StoreOK
<1>6. PICK x : x = Finish(w)
  OBVIOUS
<1>7. /\ disk' = [disk EXCEPT ![p] = s] /\ UNCHANGED <<setup, saved, removing>>
      /\ kernel' = [kernel EXCEPT ![k] = x]
  BY Zenon, <1>0, <1>2, <1>4, <1>6 DEF priv_unmark_properly_closed, Proceed, Same
<1>8. /\ disk \in [Paths -> Store] /\ saved \in [Paths -> Data] /\ removing \subseteq Paths
  BY DEF StoreInv, TypeOK
<1>9. OnlyAt(p) /\ disk'[p] = s
  BY Zenon, <1>2, <1>7, <1>8 DEF OnlyAt
<1>10. SameCall(w, w)
  BY DEF SameCall
<1>11. PICK n \in {"create_segment", "open_segment"} :
           n = Steps(w.by, w.ro)[w.step] /\ (n = "create_segment" <=> w.by = "create")
  BY ZenonT(60), <1>1, <1>2, NextStep 
<1>12. /\ x \in Kernel /\ CallOK(x) /\ x.by = w.by /\ x.step = n /\ x.dst = w.dst /\ x.path = w.path
       /\ x.ro = w.ro /\ ~x.open
       /\ \A r \in OtherThan(k) : BothApart(r, x)
  BY ZenonT(60), <1>0, <1>1, <1>2, <1>6, <1>11, StepsOn
<1>13. OpeningOK(x)'
  BY ZenonT(60), <1>1, <1>2, <1>5, <1>7, <1>9, <1>11, <1>12 DEF OpeningOK
<1>14. OpenOK(x)' /\ UuidOK(x)'
  BY Zenon, <1>11, <1>12 DEF OpenOK, UuidOK
<1>15. BuildingOK(x)'
  BY Zenon, <1>2, <1>5, <1>9, <1>11, <1>12 DEF BuildingOK, SnapshotOK, CopyOK
<1>16. StoreOK(p)'
  BY Zenon, <1>5, <1>9 DEF StoreOK
<1>17. saved' \in [Paths -> Data] /\ removing' \subseteq Paths
  BY Zenon, <1>7, <1>8 
<1> QED BY ZenonT(60), <1>0, <1>2, <1>5, <1>7, <1>12, <1>13, <1>14, <1>15, <1>16, <1>17, WriteKeeps 

LEMMA CreateSegmentKeeps ==
    ASSUME StoreInv, NEW k \in Kernels, CreateSegment(k)
    PROVE  StoreInv'
<1>0. PICK w : w = kernel[k]
  OBVIOUS
<1> DEFINE p == w.dst
<1>1. w \in Kernel /\ CallOK(w) /\ BuildingOK(w) /\ w.step = "create_segment"
  BY Zenon, <1>0, Own DEF CreateSegment, Doing
<1>2. w.by = "create" /\ ~w.open /\ Place(k) = p /\ p \in Paths
  BY Zenon, <1>0, <1>1, PlaceIs DEF CallOK, Parts, Takes, Builds
<1>3. disk[p] \in Store /\ ~disk[p].mark /\ StoreOK(p) /\ setup \in Setups
  BY Zenon, <1>1, <1>2 DEF StoreInv, TypeOK, BuildingOK, Builds, Parts
<1>4. PICK m \in 1 .. setup.epochs :
          /\ disk' = [disk EXCEPT ![p].data["segment"] = m]
          /\ Proceed(k, [w EXCEPT !.mem = [z \in Items |-> m]])
  BY Zenon, <1>0, <1>2 DEF CreateSegment
<1>5. m \in Int
  BY <1>3, SetupAssumption
<1>6. PICK d : d = [disk[p].data EXCEPT !["segment"] = m]
  BY Zenon 
<1>7. d \in Data /\ d["segment"] = m
  BY Zenon, <1>3, <1>5, <1>6 DEF Store, Data, Items
<1>8. PICK s : s = [disk[p] EXCEPT !.data = d]
  BY Zenon 
<1>9. /\ s \in Store /\ ~s.mark /\ s.uuid = disk[p].uuid /\ s.data = d
      /\ s.version # "none" => s.uuid # Absent
  BY ZenonT(60), <1>3, <1>7, <1>8, StoreData DEF StoreOK
<1>10. PICK y : y = [w EXCEPT !.mem = [z \in Items |-> m]]
  BY Zenon 
<1>11. y \in Kernel /\ SameCall(y, w) /\ y.intent = w.intent /\ y.mem["segment"] = m
  <2>1. [z \in Items |-> m] \in Data /\ [z \in Items |-> m]["segment"] = m
    BY Zenon, <1>5 DEF Data, Items
  <2> QED BY Zenon, <1>1, <1>10, <2>1 DEF Kernel, SameCall
<1>12. PICK x : x = Finish(y)
  OBVIOUS
<1>13. /\ disk' = [disk EXCEPT ![p] = s] /\ UNCHANGED <<setup, saved, removing>>
       /\ kernel' = [kernel EXCEPT ![k] = x]
  BY Zenon, <1>4, <1>6, <1>8, <1>10, <1>12 DEF CreateSegment, Proceed, Same
<1>14. disk \in [Paths -> Store] /\ removing \subseteq Paths
  BY Zenon DEF StoreInv, TypeOK
<1>15. disk'[p] = s
  BY Zenon, <1>2, <1>13, <1>14
<1>16. Steps(w.by, w.ro)[w.step] = "write_metadata"
  BY ZenonT(60), <1>1, <1>2, NextStep 
<1>17. x.by = "create" /\ x.step = "write_metadata" /\ x.dst = w.dst /\ x.mem = y.mem
  <2>1. w.by # "none" /\ w.step # "check" /\ "write_metadata" # "return"
    BY Zenon, <1>1, <1>2
  <2>2. PICK n : n = "write_metadata"
    OBVIOUS
  <2> QED BY <1>0, <1>2, <1>11, <1>12, <1>16, <2>1, <2>2, GoesOn
<1>18. BuildingOK(x)'
  BY Zenon, <1>7, <1>9, <1>11, <1>15, <1>17 DEF BuildingOK, SnapshotOK, CopyOK
<1>19. w.by \in Builds /\ w.step \notin Parts
  BY Zenon, <1>1, <1>2 DEF Builds, Parts
<1>20. removing' \subseteq Paths /\ \A q \in Paths \ {p} : q \in removing' <=> q \in removing
  BY Zenon, <1>13, <1>14
<1> QED BY ZenonT(60), <1>0, <1>1, <1>2, <1>9, <1>11, <1>12, <1>13, <1>16, <1>18, <1>19, <1>20,
           BuildKeeps 

LEMMA WriteMetadataKeeps ==
    ASSUME StoreInv, NEW k \in Kernels, WriteMetadata(k)
    PROVE  StoreInv'
<1>0. PICK w : w = kernel[k]
  OBVIOUS
<1> DEFINE p == w.dst
<1>1. w \in Kernel /\ CallOK(w) /\ BuildingOK(w) /\ OpenOK(w) /\ w.step = "write_metadata"
  BY Zenon, <1>0, Own DEF WriteMetadata, Doing
<1>2. /\ w.by \in {"create", "snapshot"} /\ w.by \in Takes /\ w.step \notin Parts
      /\ Place(k) = p /\ WritesTo(w, p) /\ p \in Paths
  BY Zenon, <1>0, <1>1, PlaceIs DEF CallOK, Parts, Takes, Builds
<1>3. disk[p] \in Store /\ ~disk[p].mark /\ setup \in Setups
  BY Zenon, <1>1, <1>2 DEF StoreInv, TypeOK, BuildingOK, Builds
<1>4. PICK u \in 1 .. setup.epochs + 1 :
          /\ NewUuid(u)
          /\ disk' = [disk EXCEPT ![p].uuid = u, ![p].version = "current"]
  BY Zenon, <1>2 DEF WriteMetadata
<1>5. u \in Nat /\ u # Absent /\ \A q \in Paths : disk[q].uuid # u
  BY <1>3, <1>4, SetupAssumption DEF NewUuid, Lowest, Absent
<1>6. PICK s : s = [disk[p] EXCEPT !.uuid = u, !.version = "current"]
  OBVIOUS
<1>7. s \in Store /\ ~s.mark /\ s.uuid = u /\ s.version = "current" /\ s.data = disk[p].data
  BY Zenon, <1>3, <1>5, <1>6 DEF Store
<1>8. disk \in [Paths -> Store] /\ saved \in [Paths -> Data] /\ removing \subseteq Paths
  BY Zenon DEF StoreInv, TypeOK
<1>9. disk' = [disk EXCEPT ![p] = s]
  BY Zenon, <1>2, <1>4, <1>6, <1>8 
<1>10. PICK x : x = Finish(w)
  OBVIOUS
<1>11. UNCHANGED <<setup, saved, removing>> /\ kernel' = [kernel EXCEPT ![k] = x]
  BY Zenon, <1>0, <1>10 DEF WriteMetadata, Proceed, Same
<1>12. OnlyAt(p) /\ disk'[p] = s /\ disk' \in [Paths -> Store]
  BY Zenon, <1>2, <1>7, <1>8, <1>9, <1>11 DEF OnlyAt
<1>13. StoreOK(p)'
  BY Zenon, <1>5, <1>7, <1>12 DEF StoreOK
<1>14. ASSUME NEW r \in OtherThan(k) PROVE UuidOK(r)'
  <2>1. r \in Kernel /\ CallOK(r) /\ KernelOK(r) /\ BothApart(r, w)
    BY Zenon, <1>0, Others
  <2>2. ~Uses(r, p)
    BY Zenon, <1>1, <1>2, <2>1, NotUsed DEF KernelOK
  <2> SUFFICES ASSUME r.by = "snapshot", r.step = "mark", NEW q \in Paths \ {r.dst}
               PROVE  disk'[q].uuid # disk'[r.dst].uuid
    BY Zenon DEF UuidOK
  <2>3. r.dst \in Paths \ {p}
    BY Zenon, <2>1, <2>2 DEF CallOK, Uses, Takes, Builds
  <2>4. disk[q].uuid # disk[r.dst].uuid
    BY Zenon, <2>1 DEF KernelOK, UuidOK
  <2> QED BY ZenonT(60), <1>5, <1>7, <1>12, <2>3, <2>4 DEF OnlyAt
<1>15. SameCall(w, w) /\ w.by # "none" /\ w.step # "check"
  BY Zenon, <1>1, <1>2 DEF SameCall
<1>16. \A r \in OtherThan(k) : BothApart(r, x)
  BY Zenon, <1>0, <1>1, <1>10, <1>15, ApartFinish
<1>17. x \in Kernel /\ CallOK(x) /\ OpenOK(x)' /\ OpeningOK(x)' /\ BuildingOK(x)' /\ UuidOK(x)'
  <2>1. CASE w.by = "create"
    <3>1. x = OpenKernel(w) /\ w.path = p /\ ~w.ro
      BY <1>1, <1>10, <2>1, NextStep, FinishIs DEF CallOK
    <3>2. /\ x \in Kernel /\ CallOK(x) /\ x.by = "none" /\ x.open /\ ~x.ro /\ x.path = p
          /\ x.mem = w.mem
      BY Zenon, <1>1, <1>2, <3>1, OpenIs 
    <3>3. OpenOK(x)'
      BY ZenonT(60), <1>1, <1>5, <1>7, <1>12, <2>1, <3>2 DEF OpenOK, BuildingOK
    <3> QED BY ZenonT(60), <3>2, <3>3, BetweenCalls
  <2>2. CASE w.by = "snapshot"
    <3>1. Steps(w.by, w.ro)[w.step] = "mark"
      BY ZenonT(60), <1>1, <2>2, NextStep 
    <3>2. /\ x \in Kernel /\ CallOK(x)
          /\ x.by = "snapshot" /\ x.step = "mark" /\ x.open = w.open /\ x.ro = w.ro
          /\ x.path = w.path /\ x.dst = w.dst /\ x.mem = w.mem /\ x.intent = w.intent
      BY Zenon, <1>0, <1>1, <1>10, <2>2, <3>1, StepsOn
    <3>3. OpenOK(x)' /\ OpeningOK(x)'
      BY Zenon, <1>1, <1>2, <1>12, <2>2, <3>2, BuilderKept DEF Parts
    <3>4. SnapshotOK(x)'
      <4>1. SnapshotOK(w)
        BY Zenon, <1>1 DEF BuildingOK
      <4>2. /\ disk[w.dst].data["segment"] = w.intent["segment"]
            /\ \A z \in Parts : disk[w.dst].data[z] = w.intent[z]
        BY Zenon, <1>1, <2>2, <4>1 DEF SnapshotOK
      <4>3. /\ disk'[x.dst] = s /\ s.data = disk[w.dst].data /\ x.intent = w.intent
            /\ s.version = "current" /\ s.uuid # Absent
        BY Zenon, <1>5, <1>7, <1>12, <2>2, <3>2 
      <4> QED BY Zenon, <4>2, <4>3 DEF SnapshotOK
    <3>5. BuildingOK(x)'
      BY Zenon, <1>7, <1>12, <3>2, <3>4 DEF BuildingOK, CopyOK
    <3>6. UuidOK(x)'
      BY ZenonT(60), <1>2, <1>5, <1>7, <1>12, <3>2 DEF UuidOK, OnlyAt
    <3> QED BY Zenon, <3>2, <3>3, <3>5, <3>6 
  <2> QED BY Zenon, <1>2, <2>1, <2>2 
<1> QED BY Zenon, <1>0, <1>2, <1>8, <1>11, <1>12, <1>13, <1>14, <1>16, <1>17, StepKeeps 

LEMMA SerializeKeeps ==
    ASSUME StoreInv, NEW k \in Kernels, Serialize(k)
    PROVE  StoreInv'
<1>0. PICK w : w = kernel[k]
  OBVIOUS
<1> DEFINE p == w.path
<1>1. w \in Kernel /\ CallOK(w) /\ OpenOK(w) /\ w.step \in Parts
  BY Zenon, <1>0, Own DEF Serialize
<1>2. /\ w.by \in {"close", "snapshot"} /\ w.open /\ ~w.ro
      /\ Place(k) = p /\ WritesTo(w, p) /\ p \in Paths
  BY Zenon, <1>0, <1>1, PlaceIs DEF CallOK, Parts, Takes, Builds
<1>3. disk[p] \in Store /\ ~disk[p].mark /\ StoreOK(p)
  BY Zenon, <1>1, <1>2 DEF StoreInv, TypeOK, OpenOK
<1>4. PICK d : d = [disk[p].data EXCEPT ![w.step] = w.mem[w.step]]
  BY Zenon 
<1>5. /\ d \in Data /\ d[w.step] = w.mem[w.step]
      /\ \A z \in Items : z # w.step => d[z] = disk[p].data[z]
  BY Zenon, <1>1, <1>3, <1>4 DEF Store, Data, Items, Kernel
<1>6. PICK s : s = [disk[p] EXCEPT !.data = d]
  BY Zenon 
<1>7. /\ s \in Store /\ ~s.mark /\ s.uuid = disk[p].uuid /\ s.version = disk[p].version /\ s.data = d
  BY ZenonT(60), <1>3, <1>5, <1>6, StoreData
<1>8. disk \in [Paths -> Store] /\ saved \in [Paths -> Data] /\ removing \subseteq Paths
  BY Zenon DEF StoreInv, TypeOK
<1>9. PICK x : x = Finish(w)
  OBVIOUS
<1>10. /\ disk' = [disk EXCEPT ![p] = s] /\ UNCHANGED <<setup, saved, removing>>
       /\ kernel' = [kernel EXCEPT ![k] = x]
  BY Zenon, <1>0, <1>2, <1>4, <1>6, <1>9 DEF Serialize, Proceed, Same
<1>11. disk'[p] = s
  BY Zenon, <1>2, <1>8, <1>10 
<1>12. SameCall(w, w) /\ w.by # "none" /\ w.step # "check"
  BY Zenon, <1>1, <1>2 DEF SameCall, Parts
<1>13. PICK n : n = Steps(w.by, w.ro)[w.step]
  OBVIOUS
<1>14. /\ n \in {"unique", "anonymous", "allocator", "sync", "remove"}
       /\ w.by = "snapshot" => n # "sync"
       /\ \A z \in WrittenBefore(n) : z \in WrittenBefore(w.step) \/ z = w.step
  BY ZenonT(60), <1>1, <1>2, <1>13, NextStep DEF Parts, WrittenBefore
<1>15. /\ x \in Kernel /\ CallOK(x)
       /\ x.by = w.by /\ x.step = n /\ x.open = w.open /\ x.ro = w.ro
       /\ x.path = w.path /\ x.mem = w.mem /\ x.intent = w.intent
       /\ \A r \in OtherThan(k) : BothApart(r, x)
  BY ZenonT(60), <1>0, <1>9, <1>12, <1>13, <1>14, StepsOn 
<1>16. OpenOK(x)'
  <2>1. "segment" \in Items /\ "segment" # w.step /\ \A z \in WrittenBefore(w.step) : z \in Items
    BY ZenonT(60), <1>1 DEF Items, Parts, WrittenBefore
  <2>2. \A z \in WrittenBefore(n) : d[z] = w.mem[z]
    BY ZenonT(60), <1>1, <1>2, <1>5, <1>14, <2>1 DEF OpenOK
  <2>3. d["segment"] = w.mem["segment"] /\ s.version = "current" /\ s.uuid # Absent
    BY Zenon, <1>1, <1>2, <1>5, <1>7, <2>1 DEF OpenOK
  <2>4. w.intent = w.mem
    BY Zenon, <1>1, <1>2 DEF OpenOK
  <2> QED BY ZenonT(60), <1>2, <1>7, <1>11, <1>15, <2>2, <2>3, <2>4 DEF OpenOK
<1>17. OpeningOK(x)' /\ BuildingOK(x)' /\ UuidOK(x)'
  BY Zenon, <1>2, <1>14, <1>15 DEF OpeningOK, BuildingOK, SnapshotOK, CopyOK, UuidOK, Builds, Parts
<1>18. StoreOK(p)'
  BY Zenon, <1>3, <1>7, <1>11 DEF StoreOK
<1>19. saved' \in [Paths -> Data] /\ removing' \subseteq Paths
  BY Zenon, <1>8, <1>10 
<1> QED BY Zenon, <1>0, <1>2, <1>7, <1>10, <1>15, <1>16, <1>17, <1>18, <1>19, WriteKeeps 

\* What a snapshot copies is what the kernel has in memory.
LEMMA SnapshotSource ==
    ASSUME NEW w \in Kernel, CallOK(w), OpenOK(w), w.by = "snapshot", w.step \notin Parts
    PROVE  \A z \in Items : disk[w.src].data[z] = w.intent[z]
<1>1. w.open /\ w.src = w.path
  BY Zenon DEF CallOK
<1>2. WrittenBefore(w.step) = Parts
  BY Zenon DEF WrittenBefore, Parts
<1> QED BY ZenonT(60), <1>1, <1>2 DEF OpenOK, Items

LEMMA CopySegmentKeeps ==
    ASSUME StoreInv, NEW k \in Kernels, CopySegment(k)
    PROVE  StoreInv'
<1>0. PICK w : w = kernel[k]
  OBVIOUS
<1> DEFINE p == w.dst
<1>1. /\ w \in Kernel /\ CallOK(w) /\ BuildingOK(w) /\ CopyOK(w) /\ OpenOK(w)
      /\ w.step \in {"copy_segment", "snapshot_segment"}
  BY Zenon, <1>0, Own DEF CopySegment
<1>2. /\ w.by \in {"copy", "snapshot"} /\ w.by \in Builds /\ w.step \notin Parts
      /\ Place(k) = p /\ p \in Paths /\ w.src \in Paths \ {p}
  BY Zenon, <1>0, <1>1, PlaceIs DEF CallOK, Parts, Takes, Builds
<1>3. disk[p] \in Store /\ disk[w.src] \in Store /\ ~disk[p].mark /\ StoreOK(p)
  BY Zenon, <1>1, <1>2 DEF StoreInv, TypeOK, BuildingOK
<1>4. PICK d : d = [disk[p].data EXCEPT !["segment"] = disk[w.src].data["segment"]]
  BY Zenon 
<1>5. d \in Data /\ d["segment"] = disk[w.src].data["segment"]
  BY Zenon, <1>3, <1>4 DEF Store, Data, Items
<1>6. PICK s : s = [disk[p] EXCEPT !.data = d]
  BY Zenon 
<1>7. /\ s \in Store /\ ~s.mark /\ s.uuid = disk[p].uuid /\ s.data = d
      /\ s.version # "none" => s.uuid # Absent
  BY ZenonT(60), <1>3, <1>5, <1>6, StoreData DEF StoreOK
<1>8. PICK x : x = Finish(w)
  OBVIOUS
<1>9. /\ disk' = [disk EXCEPT ![p] = s] /\ UNCHANGED <<setup, saved, removing>>
      /\ kernel' = [kernel EXCEPT ![k] = x]
  BY Zenon, <1>0, <1>2, <1>4, <1>6, <1>8 DEF CopySegment, Proceed, Same
<1>10. disk \in [Paths -> Store] /\ removing \subseteq Paths
  BY Zenon DEF StoreInv, TypeOK
<1>11. OnlyAt(p) /\ disk'[p] = s
  BY Zenon, <1>2, <1>9, <1>10 DEF OnlyAt
<1>12. SameCall(w, w)
  BY DEF SameCall
<1>13. PICK n \in {"create_mng", "copy_mng"} :
           n = Steps(w.by, w.ro)[w.step] /\ (n = "create_mng" <=> w.by = "copy")
  BY ZenonT(60), <1>1, <1>2, NextStep DEF CallOK, Parts
<1>14. x.by = w.by /\ x.step = n /\ x.dst = w.dst /\ x.src = w.src /\ x.intent = w.intent
  BY ZenonT(60), <1>0, <1>1, <1>2, <1>8, <1>13, StepsOn 
<1>15. CopyOK(x)'
  <2> SUFFICES ASSUME w.by = "copy" PROVE CopyOK(x)'
    BY Zenon, <1>14 DEF CopyOK
  <2>1. disk'[w.src] = disk[w.src] /\ disk'[w.src].mark /\ w.intent = saved'[w.src]
    BY Zenon, <1>1, <1>11, SourceKept 
  <2>2. w.step = "copy_segment"
    BY Zenon, <1>1 DEF CallOK
  <2>3. /\ w.src \in removing => w.dst \in removing
        /\ s.data["segment"] = disk[w.src].data["segment"]
    BY Zenon, <1>1, <1>5, <1>7, <2>2 DEF CopyOK
  <2>4. x.step = "create_mng"
    BY Zenon, <1>13, <1>14
  <2>5. /\ x.by = "copy" /\ x.src = w.src /\ x.dst = w.dst /\ x.intent = w.intent
        /\ disk'[w.dst] = s /\ removing' = removing
    BY Zenon, <1>9, <1>11, <1>14 
  <2> QED BY ZenonT(60), <2>1, <2>3, <2>4, <2>5 DEF CopyOK
<1>16. SnapshotOK(x)'
  <2> SUFFICES ASSUME w.by = "snapshot" PROVE SnapshotOK(x)'
    BY Zenon, <1>14 DEF SnapshotOK
  <2>1. d["segment"] = w.intent["segment"]
    BY Zenon, <1>1, <1>2, <1>5, SnapshotSource DEF Items
  <2> QED BY Zenon, <1>7, <1>11, <1>13, <1>14, <2>1 DEF SnapshotOK
<1>17. BuildingOK(x)'
  BY ZenonT(60), <1>7, <1>11, <1>13, <1>14, <1>15, <1>16 DEF BuildingOK
<1>18. removing' \subseteq Paths /\ \A q \in Paths \ {p} : q \in removing' <=> q \in removing
  BY Zenon, <1>9, <1>10 
<1> QED BY Zenon, <1>0, <1>1, <1>2, <1>7, <1>8, <1>9, <1>12, <1>13, <1>17, <1>18, BuildKeeps 

LEMMA CopyMngKeeps ==
    ASSUME StoreInv, NEW k \in Kernels, CopyMng(k)
    PROVE  StoreInv'
<1>0. PICK w : w = kernel[k]
  OBVIOUS
<1> DEFINE p == w.dst
<1>1. /\ w \in Kernel /\ CallOK(w) /\ BuildingOK(w) /\ SnapshotOK(w) /\ CopyOK(w) /\ OpenOK(w)
      /\ w.step = "copy_mng"
  BY Zenon, <1>0, Own DEF CopyMng, Doing
<1>2. /\ w.by \in {"copy", "snapshot"} /\ w.by \in Takes /\ w.by \in Builds /\ w.step \notin Parts
      /\ Place(k) = p /\ WritesTo(w, p) /\ p \in Paths /\ w.src \in Paths \ {p}
  BY ZenonT(60), <1>0, <1>1, PlaceIs DEF CallOK, Parts, Takes, Builds
<1>3. disk[p] \in Store /\ disk[w.src] \in Store /\ ~disk[p].mark /\ StoreOK(w.src)
  BY Zenon, <1>1, <1>2 DEF StoreInv, TypeOK, BuildingOK, Parts
<1> DEFINE from == disk[w.src]
<1>4. PICK d : d = [z \in Items |-> IF z \in Parts THEN from.data[z] ELSE disk[p].data[z]]
  BY Zenon 
<1>5. /\ d \in Data /\ d["segment"] = disk[p].data["segment"]
      /\ \A z \in Parts : d[z] = from.data[z]
  BY Zenon, <1>3, <1>4 DEF Store, Data, Items, Parts
<1>6. PICK s : s = [disk[p] EXCEPT !.uuid = from.uuid, !.version = from.version,
                        !.description = from.description, !.data = d]
  OBVIOUS
<1>7. s \in Store /\ ~s.mark /\ s.uuid = from.uuid /\ s.version = from.version /\ s.data = d
  BY Zenon, <1>3, <1>5, <1>6 DEF Store
<1>8. disk \in [Paths -> Store] /\ saved \in [Paths -> Data] /\ removing \subseteq Paths
  BY DEF StoreInv, TypeOK
<1>9. PICK x : x = Finish(w)
  OBVIOUS
<1>10. /\ disk' = [disk EXCEPT ![p] = s] /\ UNCHANGED <<setup, saved, removing>>
       /\ kernel' = [kernel EXCEPT ![k] = x]
  BY ZenonT(60), <1>0, <1>2, <1>4, <1>6, <1>9 DEF CopyMng, Proceed, Same
<1>11. OnlyAt(p) /\ disk'[p] = s /\ disk' \in [Paths -> Store]
  BY Zenon, <1>2, <1>7, <1>8, <1>10 DEF OnlyAt
<1>12. SameCall(w, w) /\ w.by # "none" /\ w.step # "check"
  BY Zenon, <1>1, <1>2 DEF SameCall
<1>13. PICK n \in {"mark", "write_metadata"} :
           n = Steps(w.by, w.ro)[w.step] /\ (n = "mark" <=> w.by = "copy")
  BY ZenonT(60), <1>1, <1>2, NextStep 
<1>14. /\ x \in Kernel /\ CallOK(x)
       /\ x.by = w.by /\ x.step = n /\ x.open = w.open /\ x.ro = w.ro
       /\ x.path = w.path /\ x.dst = w.dst /\ x.src = w.src
       /\ x.mem = w.mem /\ x.intent = w.intent
       /\ \A r \in OtherThan(k) : BothApart(r, x)
  BY ZenonT(60), <1>0, <1>9, <1>12, <1>13, StepsOn 
<1>15. CopyOK(x)'
  <2> SUFFICES ASSUME w.by = "copy" PROVE CopyOK(x)'
    BY Zenon, <1>14 DEF CopyOK
  <2>1. disk'[w.src] = disk[w.src] /\ disk'[w.src].mark /\ w.intent = saved'[w.src]
    BY ZenonT(60), <1>1, <1>11, SourceKept 
  <2>2. /\ w.src \in removing => w.dst \in removing
        /\ disk[p].data["segment"] = disk[w.src].data["segment"]
    BY Zenon, <1>1 DEF CopyOK
  <2>3. /\ s.data["segment"] = disk[w.src].data["segment"]
        /\ \A z \in Parts : s.data[z] = disk[w.src].data[z]
        /\ s.version = disk[w.src].version /\ s.uuid = disk[w.src].uuid
    BY Zenon, <1>5, <1>7, <2>2
  <2>4. x.step = "mark"
    BY Zenon, <1>13, <1>14
  <2>5. /\ x.by = "copy" /\ x.src = w.src /\ x.dst = w.dst /\ x.intent = w.intent
        /\ disk'[w.dst] = s /\ removing' = removing
    BY Zenon, <1>10, <1>11, <1>14 
  <2>6. /\ disk'[x.src].mark /\ x.intent = saved'[x.src]
        /\ x.src \in removing' => x.dst \in removing'
        /\ disk'[x.dst].data["segment"] = disk'[x.src].data["segment"]
        /\ \A z \in Parts : disk'[x.dst].data[z] = disk'[x.src].data[z]
        /\ disk'[x.dst].version = disk'[x.src].version /\ disk'[x.dst].uuid = disk'[x.src].uuid
    BY <2>1, <2>2, <2>3, <2>5
  <2> QED BY Zenon, <2>6 DEF CopyOK
<1>16. SnapshotOK(x)'
  <2> SUFFICES ASSUME w.by = "snapshot" PROVE SnapshotOK(x)'
    BY Zenon, <1>14 DEF SnapshotOK
  <2>1. \A z \in Parts : d[z] = w.intent[z]
    BY Zenon, <1>1, <1>2, <1>5, SnapshotSource DEF Items
  <2>2. d["segment"] = w.intent["segment"]
    BY Zenon, <1>1, <1>5 DEF SnapshotOK
  <2> QED BY Zenon, <1>7, <1>11, <1>13, <1>14, <2>1, <2>2 DEF SnapshotOK
<1>17. BuildingOK(x)'
  BY Zenon, <1>2, <1>7, <1>11, <1>14, <1>15, <1>16 DEF BuildingOK
<1>18. OpenOK(x)' /\ OpeningOK(x)'
  BY Zenon, <1>1, <1>2, <1>11, <1>13, <1>14, BuilderKept DEF Parts
<1>19. UuidOK(x)'
  BY Zenon, <1>2, <1>13, <1>14 DEF UuidOK
<1>20. ASSUME NEW r \in OtherThan(k) PROVE UuidOK(r)'
  <2>1. r \in Kernel /\ CallOK(r) /\ KernelOK(r) /\ BothApart(r, w)
    BY Zenon, <1>0, Others 
  <2>2. ~Uses(r, p)
    BY Zenon, <1>1, <1>2, <2>1, NotUsed DEF KernelOK
  <2> SUFFICES ASSUME r.by = "snapshot", r.step = "mark", NEW q \in Paths \ {r.dst}
               PROVE  disk'[q].uuid # disk'[r.dst].uuid
    BY Zenon DEF UuidOK
  <2>3. r.dst \in Paths \ {p} /\ w.src # r.dst
    BY Zenon, <2>1, <2>2 DEF CallOK, Uses, Takes, Builds, BothApart, Apart
  <2>4. disk[q].uuid # disk[r.dst].uuid /\ from.uuid # disk[r.dst].uuid
    BY Zenon, <1>2, <2>1, <2>3 DEF KernelOK, UuidOK
  <2> QED BY Zenon, <1>7, <1>11, <2>3, <2>4 DEF OnlyAt
<1>21. StoreOK(p)'
  BY Zenon, <1>3, <1>7, <1>11 DEF StoreOK
<1> QED BY ZenonT(60), <1>0, <1>2, <1>8, <1>10, <1>11, <1>14, <1>17, <1>18, <1>19, <1>20, <1>21,
           StepKeeps 

\* Marking: the store holds all of what it is to hold.
LEMMA MarkKeeps ==
    ASSUME StoreInv, NEW k \in Kernels, priv_mark_properly_closed(k)
    PROVE  StoreInv'
<1>0. PICK w : w = kernel[k]
  OBVIOUS
<1> DEFINE p == w.dst
<1>1. /\ w \in Kernel /\ CallOK(w) /\ BuildingOK(w) /\ SnapshotOK(w) /\ CopyOK(w) /\ OpenOK(w)
      /\ w.step = "mark"
  BY Zenon, <1>0, Own DEF priv_mark_properly_closed, Doing
<1>2. /\ w.by \in {"close", "copy", "snapshot"} /\ (w.by = "close" => ~w.ro /\ w.open)
      /\ Place(k) = p /\ WritesTo(w, p) /\ p \in Paths
  BY ZenonT(60), <1>0, <1>1, PlaceIs DEF CallOK, Parts, Takes, Builds
<1>3. disk[p] \in Store /\ StoreOK(p) /\ disk[p].data \in Data /\ w.intent \in Data
  BY ZenonT(60), <1>1, <1>2 DEF StoreInv, TypeOK, Store, Kernel
<1>4. PICK s : s = [disk[p] EXCEPT !.mark = TRUE]
  BY Zenon 
<1>5. /\ s \in Store /\ s.mark /\ s.uuid = disk[p].uuid /\ s.data = disk[p].data
      /\ s.version = disk[p].version
  BY Zenon, <1>3, <1>4, StoreBits 
<1>6. PICK x : x = Finish(w)
  OBVIOUS
<1>7. /\ disk' = [disk EXCEPT ![p] = s] /\ saved' = [saved EXCEPT ![p] = w.intent]
      /\ UNCHANGED <<setup, removing>> /\ kernel' = [kernel EXCEPT ![k] = x]
  BY Zenon, <1>0, <1>2, <1>4, <1>6 DEF priv_mark_properly_closed, Proceed
<1>8. disk \in [Paths -> Store] /\ saved \in [Paths -> Data] /\ removing \subseteq Paths
  BY DEF StoreInv, TypeOK
<1>9. /\ OnlyAt(p) /\ disk'[p] = s /\ saved'[p] = w.intent /\ saved' \in [Paths -> Data]
      /\ removing' \subseteq Paths
  BY Zenon, <1>2, <1>3, <1>7, <1>8 DEF OnlyAt
<1>10. StoreOK(p)'
  <2>1. CASE w.by = "close"
    <3>1. w.path = p /\ w.intent = w.mem /\ WrittenBefore(w.step) = Parts
      BY ZenonT(60), <1>1, <1>2, <2>1 DEF CallOK, OpenOK, WrittenBefore
    <3>2. \A z \in Items : disk[p].data[z] = w.intent[z]
      BY ZenonT(60), <1>1, <1>2, <2>1, <3>1 DEF OpenOK, Items
    <3>3. disk[p].data = w.intent
      BY <1>3, <3>2 DEF Data
    <3>4. disk[p].version = "current" /\ disk[p].uuid # Absent
      BY Zenon, <1>1, <1>2, <2>1, <3>1 DEF OpenOK
    <3> QED BY Zenon, <1>5, <1>9, <3>3, <3>4 DEF StoreOK, Complete
  <2>2. CASE w.by = "snapshot"
    <3>1. \A z \in Items : disk[p].data[z] = w.intent[z]
      BY Zenon, <1>1, <2>2 DEF SnapshotOK, Items
    <3>2. disk[p].data = w.intent
      BY <1>3, <3>1 DEF Data
    <3>3. disk[p].version = "current" /\ disk[p].uuid # Absent
      BY Zenon, <1>1, <2>2 DEF SnapshotOK
    <3> QED BY <1>5, <1>9, <3>2, <3>3 DEF StoreOK, Complete
  <2>3. CASE w.by = "copy"
    <3>1. w.src \in Paths
      BY Zenon, <1>1, <2>3 DEF CallOK
    <3> DEFINE from == disk[w.src]
    <3>2. StoreOK(w.src) /\ from.data \in Data
      BY Zenon, <3>1 DEF StoreInv, TypeOK, Store
    <3>3. \A z \in Items : disk[p].data[z] = from.data[z]
      BY Zenon, <1>1, <2>3 DEF CopyOK, Items
    <3>4. disk[p].data = from.data
      BY <1>3, <3>2, <3>3 DEF Data
    <3>5. /\ from.mark /\ w.intent = saved[w.src]
          /\ disk[p].version = from.version /\ disk[p].uuid = from.uuid
          /\ w.src \in removing => p \in removing
      BY Zenon, <1>1, <2>3 DEF CopyOK
    <3>6. disk[p].data = w.intent \/ disk[p].data["segment"] = Absent
      BY Zenon, <3>2, <3>4, <3>5 DEF StoreOK
    <3>7. p \notin removing =>
             disk[p].data = w.intent /\ disk[p].version # "none" /\ disk[p].uuid # Absent
      BY Zenon, <3>2, <3>4, <3>5 DEF StoreOK, Complete
    <3> QED BY ZenonT(60), <1>3, <1>5, <1>7, <1>9, <3>6, <3>7 DEF StoreOK, Complete
  <2> QED BY Zenon, <1>2, <2>1, <2>2, <2>3 
<1>11. SameCall(w, w) /\ w.by # "none" /\ w.step # "check"
  BY Zenon, <1>1, <1>2 DEF SameCall
<1>12. \A r \in OtherThan(k) : BothApart(r, x)
  BY Zenon, <1>0, <1>1, <1>6, <1>11, ApartFinish 
<1>13. x \in Kernel /\ CallOK(x) /\ OpenOK(x)' /\ OpeningOK(x)' /\ BuildingOK(x)' /\ UuidOK(x)'
  <2>1. CASE w.by \in {"close", "copy"}
    <3>1. x = IdleKernel
      BY ZenonT(60), <1>1, <1>6, <2>1, NextStep, FinishIs 
    <3> QED BY <3>1, IdleIs, IdleOK
  <2>2. CASE w.by = "snapshot"
    <3>1. x = OpenKernel(w)
      BY ZenonT(60), <1>1, <1>6, <2>2, NextStep, FinishIs 
    <3>2. w.open /\ w.path \in Paths \ {p}
      BY Zenon, <1>1, <2>2 DEF CallOK
    <3>3. /\ x \in Kernel /\ CallOK(x) /\ x.by = "none" /\ x.open /\ x.ro = w.ro /\ x.path = w.path
          /\ x.mem = w.mem
      BY Zenon, <1>1, <3>1, <3>2, OpenIs 
    <3>4. disk'[w.path] = disk[w.path] /\ saved'[w.path] = saved[w.path]
      BY Zenon, <1>9, <3>2 DEF OnlyAt
    <3>5. OpenOK(x)'
      BY ZenonT(60), <1>1, <3>2, <3>3, <3>4 DEF OpenOK
    <3> QED BY Zenon, <3>3, <3>5, BetweenCalls
  <2> QED BY Zenon, <1>2, <2>1, <2>2 
<1>14. \A q \in Paths \ {p} : saved'[q] = saved[q] /\ (q \in removing' <=> q \in removing)
  BY Zenon, <1>7, <1>8
<1> QED BY ZenonT(60), <1>0, <1>2, <1>5, <1>7, <1>9, <1>10, <1>12, <1>13, <1>14, WriteKeeps 

LEMMA MutateKeeps ==
    ASSUME StoreInv, NEW k \in Kernels, Mutate(k)
    PROVE  StoreInv'
<1>0. PICK w : w = kernel[k]
  OBVIOUS
<1> DEFINE p == w.path
<1>1. /\ w \in Kernel /\ CallOK(w) /\ OpenOK(w) /\ w.by = "none" /\ w.open /\ ~w.ro /\ p \in Paths
  BY Zenon, <1>0, Own DEF Mutate, Ready, Busy, CallOK, Parts
<1>2. disk[p] \in Store /\ ~disk[p].mark /\ StoreOK(p) /\ setup \in Setups
  BY Zenon, <1>1 DEF StoreInv, TypeOK, OpenOK
<1>3. PICK m \in 1 .. setup.epochs :
          /\ kernel' = [kernel EXCEPT ![k].mem = [z \in Items |-> m]]
          /\ disk' = [disk EXCEPT ![p].data["segment"] = m]
  BY Zenon, <1>0 DEF Mutate
<1>4. m \in Int
  BY <1>2, SetupAssumption
<1>5. PICK d : d = [disk[p].data EXCEPT !["segment"] = m]
  BY Zenon 
<1>6. d \in Data /\ d["segment"] = m
  BY Zenon, <1>2, <1>4, <1>5 DEF Store, Data, Items
<1>7. PICK s : s = [disk[p] EXCEPT !.data = d]
  BY Zenon 
<1>8. /\ s \in Store /\ ~s.mark /\ s.uuid = disk[p].uuid /\ s.version = disk[p].version /\ s.data = d
  BY ZenonT(60), <1>2, <1>6, <1>7, StoreData
<1>9. PICK x : x = [w EXCEPT !.mem = [z \in Items |-> m]]
  BY Zenon
<1>10. x \in Kernel /\ SameCall(x, w) /\ x.mem["segment"] = m
  <2>1. [z \in Items |-> m] \in Data /\ [z \in Items |-> m]["segment"] = m
    BY <1>4 DEF Data, Items
  <2> QED BY Zenon, <1>1, <1>9, <2>1 DEF Kernel, SameCall
<1>11. /\ disk' = [disk EXCEPT ![p] = s] /\ UNCHANGED <<setup, saved, removing>>
       /\ kernel' = [kernel EXCEPT ![k] = x]
  BY Zenon, <1>0, <1>3, <1>5, <1>7, <1>9 DEF Mutate
<1>12. disk \in [Paths -> Store] /\ saved \in [Paths -> Data] /\ removing \subseteq Paths
  BY Zenon DEF StoreInv, TypeOK
<1>13. disk'[p] = s
  BY Zenon, <1>1, <1>11, <1>12
<1>14. CallOK(x)
  BY Zenon, <1>1, <1>10, SameCallIs 
<1>15. \A r \in OtherThan(k) : BothApart(r, x)
  BY Zenon, <1>0, <1>10, Others, SameCallIs 
<1>16. OpenOK(x)' /\ OpeningOK(x)' /\ BuildingOK(x)' /\ UuidOK(x)'
  <2>1. x.by = "none" /\ x.open /\ ~x.ro /\ x.path = p
    BY Zenon, <1>1, <1>10 DEF SameCall
  <2>2. OpenOK(x)'
    BY ZenonT(60), <1>1, <1>6, <1>8, <1>10, <1>13, <2>1 DEF OpenOK
  <2> QED BY Zenon, <2>1, <2>2, BetweenCalls 
<1>17. StoreOK(p)'
  BY Zenon, <1>2, <1>8, <1>13 DEF StoreOK
<1>18. WritesTo(w, p) /\ saved' \in [Paths -> Data] /\ removing' \subseteq Paths
  BY Zenon, <1>1, <1>11, <1>12 DEF WritesTo
<1> QED BY ZenonT(60), <1>0, <1>1, <1>8, <1>10, <1>11, <1>14, <1>15, <1>16, <1>17, <1>18, WriteKeeps 

\* The description is no part of what the properties speak of.
LEMMA DescriptionKeeps ==
    ASSUME StoreInv, NEW p \in Paths, set_description(p) \/ get_description(p)
    PROVE  StoreInv'
<1>1. /\ disk \in [Paths -> Store] /\ UNCHANGED <<setup, kernel, saved, removing>>
      /\ disk' = disk \/ disk' = [disk EXCEPT ![p].description = disk[p].mng]
  BY Zenon DEF set_description, get_description, StoreInv, TypeOK
<1>2. /\ disk' \in [Paths -> Store]
      /\ \A q \in Paths :
            /\ disk'[q].mark = disk[q].mark /\ disk'[q].version = disk[q].version
            /\ disk'[q].uuid = disk[q].uuid /\ disk'[q].data = disk[q].data
  <2>1. CASE disk' = disk
    BY Zenon, <1>1, <2>1
  <2>2. CASE disk' = [disk EXCEPT ![p].description = disk[p].mng]
    <3>1. PICK s : s = [disk[p] EXCEPT !.description = disk[p].mng]
      BY Zenon 
    <3>2. /\ s \in Store /\ s.mark = disk[p].mark /\ s.version = disk[p].version
          /\ s.uuid = disk[p].uuid /\ s.data = disk[p].data
      BY <1>1, <3>1 DEF Store
    <3>3. disk' = [disk EXCEPT ![p] = s]
      BY Zenon, <2>2, <3>1
    <3> QED BY Zenon, <1>1, <3>2, <3>3
  <2> QED BY Zenon, <1>1, <2>1, <2>2
<1>3. TypeOK'
  BY Zenon, <1>1, <1>2 DEF StoreInv, TypeOK
<1>4. \A q \in Paths : StoreOK(q)'
  BY <1>1, <1>2 DEF StoreInv, StoreOK, Complete
<1>5. \A k \in Kernels : KernelOK(kernel[k])'
  <2> SUFFICES ASSUME NEW k \in Kernels PROVE KernelOK(kernel[k])'
    OBVIOUS
  <2>1. PICK w : w = kernel[k] /\ w = kernel'[k]
    BY Zenon, <1>1 
  <2>2. /\ OpenOK(w) /\ OpeningOK(w) /\ BuildingOK(w) /\ UuidOK(w) /\ CallOK(w)
        /\ SnapshotOK(w) /\ CopyOK(w)
    BY Zenon, <2>1, Own 
  <2>3. /\ w.open => w.path \in Paths
        /\ w.by # "none" => w.path \in Paths /\ w.dst \in Paths
        /\ w.by = "copy" => w.src \in Paths
    BY Zenon, <2>2 DEF CallOK
  <2>4. OpenOK(w)'
    BY ZenonT(60), <1>1, <1>2, <2>2, <2>3 DEF OpenOK
  <2>5. OpeningOK(w)'
    BY Zenon, <1>1, <1>2, <2>2, <2>3 DEF OpeningOK
  <2>6. SnapshotOK(w)'
    BY ZenonT(60), <1>1, <1>2, <2>2, <2>3 DEF SnapshotOK
  <2>7. CopyOK(w)'
    BY ZenonT(60), <1>1, <1>2, <2>2, <2>3 DEF CopyOK
  <2>8. BuildingOK(w)'
    BY Zenon, <1>1, <1>2, <2>2, <2>3, <2>6, <2>7 DEF BuildingOK, Builds
  <2>9. UuidOK(w)'
    BY Zenon, <1>1, <1>2, <2>2, <2>3 DEF UuidOK
  <2> QED BY Zenon, <2>1, <2>4, <2>5, <2>8, <2>9 DEF KernelOK
<1> QED BY Zenon, <1>1, <1>3, <1>4, <1>5 DEF StoreInv

-----------------------------------------------------------------------------
(* Failures and crashes.                                                   *)

\* A step that is cut off tears the file it writes, and nothing else.
LEMMA HalfIs ==
    ASSUME NEW s \in Store, NEW name
    PROVE  LET t == HalfWritten(s, name) IN
           /\ t \in Store /\ t.mark = s.mark /\ t.uuid = s.uuid /\ t.version = s.version
           /\ name \notin Parts \cup {"copy_segment", "snapshot_segment", "sync", "copy_mng"} => t = s
<1>1. s.data \in Data
  BY Zenon DEF Store
<1>2. CASE name \in Parts
  <2>1. [s.data EXCEPT ![name] = Torn] \in Data
    BY <1>1, <1>2 DEF Data, Torn, Items
  <2>2. HalfWritten(s, name) = [s EXCEPT !.data = [s.data EXCEPT ![name] = Torn]]
    BY Zenon, <1>2 DEF HalfWritten
  <2> QED BY <1>2, <2>1, <2>2, StoreData
<1>3. CASE name \in {"copy_segment", "snapshot_segment", "sync"}
  <2>1. [s.data EXCEPT !["segment"] = Torn] \in Data
    BY <1>1 DEF Data, Torn, Items
  <2>2. HalfWritten(s, name) = [s EXCEPT !.data = [s.data EXCEPT !["segment"] = Torn]]
    BY Zenon, <1>3 DEF HalfWritten, Parts
  <2> QED BY <1>3, <2>1, <2>2, StoreData
<1>4. CASE name = "copy_mng"
  <2>0. PICK d : d = [x \in Items |-> IF x \in Parts THEN Torn ELSE s.data[x]]
    BY Zenon 
  <2>1. d \in Data
    BY <1>1, <2>0 DEF Data, Torn
  <2>2. PICK t : t = HalfWritten(s, name) /\ t = [s EXCEPT !.data = d]
    BY Zenon, <1>4, <2>0 DEF HalfWritten, Parts
  <2>3. t \in Store /\ t.mark = s.mark /\ t.uuid = s.uuid /\ t.version = s.version
    BY <2>1, <2>2, StoreData
  <2> QED BY Zenon, <1>4, <2>2, <2>3
<1>5. CASE name \notin Parts \cup {"copy_segment", "snapshot_segment", "sync", "copy_mng"}
  BY Zenon, <1>5 DEF HalfWritten
<1> QED BY Zenon, <1>2, <1>3, <1>4, <1>5

\* A call that ends in the middle of a step, whether the process dies or the
\* step fails: the store it wrote carries no mark.
LEMMA CutOffKeeps ==
    ASSUME StoreInv, NEW k \in Kernels, kernel[k].by # "none",
           NEW x, x = IdleKernel \/ (x = Abort(kernel[k]) /\ (kernel[k].open => Place(k) # kernel[k].path)),
           disk' = [disk EXCEPT ![Place(k)] = HalfWritten(@, kernel[k].step)],
           kernel' = [kernel EXCEPT ![k] = x], UNCHANGED <<setup, saved, removing>>
    PROVE  StoreInv'
<1>0. PICK w : w = kernel[k]
  BY Zenon 
<1>1. w \in Kernel /\ CallOK(w) /\ BuildingOK(w) /\ OpenOK(w)
  BY Zenon, <1>0, Own 
<1>2. PICK p \in Paths : p = Place(k)
  BY ZenonT(60), <1>0, <1>1, PlaceIs 
<1>3. disk \in [Paths -> Store] /\ saved' \in [Paths -> Data] /\ removing' \subseteq Paths /\ StoreOK(p)
  BY Zenon DEF StoreInv, TypeOK
<1>4. PICK s : s = HalfWritten(disk[p], w.step)
  BY Zenon 
<1>5. /\ s \in Store /\ s.mark = disk[p].mark /\ s.uuid = disk[p].uuid /\ s.version = disk[p].version
      /\ w.step \notin Parts \cup {"copy_segment", "snapshot_segment", "sync", "copy_mng"} => s = disk[p]
  BY ZenonT(60), <1>3, <1>4, HalfIs 
<1>6. disk' = [disk EXCEPT ![p] = s] /\ disk'[p] = s /\ disk' \in [Paths -> Store] /\ OnlyAt(p)
  BY Zenon, <1>0, <1>2, <1>3, <1>4, <1>5 DEF OnlyAt
<1>7. /\ x \in Kernel /\ CallOK(x) /\ x.by = "none"
      /\ \A r \in OtherThan(k) : BothApart(r, x)
  <2>1. CASE x = IdleKernel
    BY Zenon, <2>1, IdleIs, Others, ApartIdle 
  <2>2. CASE x = Abort(kernel[k])
    <3>1. x.by = "none"
      BY ZenonT(60), <1>0, <1>1, <2>2, IdleIs, OpenIs DEF Abort, CallOK
    <3> QED BY Zenon, <2>2, <3>1, AbortIs 
  <2> QED BY Zenon, <2>1, <2>2 
<1>8. OpenOK(x)'
  <2>1. CASE x = IdleKernel
    BY Zenon, <2>1, IdleOK 
  <2>2. CASE x = Abort(kernel[k]) /\ ~w.open
    BY Zenon, <1>0, <2>2, IdleOK DEF Abort
  <2>3. CASE x = Abort(kernel[k]) /\ w.open /\ p # w.path
    <3>1. w.path \in Paths
      BY Zenon, <1>1, <2>3 DEF CallOK
    <3>2. x.by = "none" /\ x.open /\ x.ro = w.ro /\ x.path = w.path /\ x.mem = w.mem
      BY Zenon, <1>0, <1>1, <2>3, <3>1, OpenIs DEF Abort
    <3>3. disk'[w.path] = disk[w.path] /\ saved'[w.path] = saved[w.path]
      BY Zenon, <1>6, <2>3, <3>1 DEF OnlyAt
    <3> QED BY ZenonT(60), <1>1, <2>3, <3>2, <3>3 DEF OpenOK
  <2> QED BY Zenon, <1>0, <1>2, <2>1, <2>2, <2>3 
<1>9. OpeningOK(x)' /\ BuildingOK(x)' /\ UuidOK(x)'
  BY Zenon, <1>7, BetweenCalls 
<1>10. CASE w.step \notin Parts \cup {"copy_segment", "snapshot_segment", "sync", "copy_mng"}
  <2>1. disk' = disk
    BY <1>3, <1>5, <1>6, <1>10
  <2>2. StoreOK(p)'
    BY Zenon, <1>3, <2>1 DEF StoreOK, Complete
  <2>3. \A r \in OtherThan(k) : UuidOK(r)'
    BY ZenonT(60), <2>1, Others DEF UuidOK, KernelOK
  <2> QED BY ZenonT(60), <1>3, <1>6, <1>7, <1>8, <1>9, <2>1, <2>2, <2>3, StepKeeps 
<1>11. CASE w.step \in Parts \cup {"copy_segment", "snapshot_segment", "sync", "copy_mng"}
  <2>1. WritesTo(w, p) /\ ~disk[p].mark
    <3>1. CASE w.step \in Parts \cup {"sync"}
      <4>1. w.open /\ ~w.ro /\ p = w.path
        BY ZenonT(60), <1>0, <1>1, <1>2, <3>1 DEF CallOK, Parts, Place
      <4> QED BY Zenon, <1>1, <4>1 DEF OpenOK, WritesTo
    <3>2. CASE w.step \in {"copy_segment", "snapshot_segment", "copy_mng"}
      <4>1. w.by \in Builds /\ w.step \notin Parts \cup {"check_source", "remove"}
        BY ZenonT(60), <1>1, <3>2 DEF CallOK, Parts, Builds
      <4>2. p = w.dst
        BY Zenon, <1>0, <1>2, <4>1 DEF Place
      <4> QED BY Zenon, <1>1, <4>1, <4>2 DEF BuildingOK, WritesTo, Takes
    <3> QED BY Zenon, <1>11, <3>1, <3>2 
  <2>2. StoreOK(p)'
    BY Zenon, <1>3, <1>5, <1>6, <2>1 DEF StoreOK
  <2> QED BY Zenon, <1>0, <1>3, <1>5, <1>6, <1>7, <1>8, <1>9, <2>1, <2>2, WriteKeeps 
<1> QED BY Zenon, <1>10, <1>11 

LEMMA CrashKeeps ==
    ASSUME StoreInv, NEW k \in Kernels, Crash(k)
    PROVE  StoreInv'
<1>1. kernel' = [kernel EXCEPT ![k] = IdleKernel] /\ UNCHANGED <<setup, saved, removing>>
  BY Zenon DEF Crash, Same
<1>2. CASE UNCHANGED disk
  <2>1. \A r \in OtherThan(k) : BothApart(r, IdleKernel)
    BY Zenon, Others, ApartIdle
  <2> QED BY Zenon, <1>1, <1>2, <2>1, IdleIs, IdleOK, FilesAlone 
<1>3. CASE Busy(k) /\ disk' = [disk EXCEPT ![Place(k)] = HalfWritten(@, kernel[k].step)]
  <2>1. kernel[k].by # "none"
    BY Zenon, <1>3, Own DEF CallOK, Busy
  <2>2. PICK x : x = IdleKernel
    OBVIOUS
  <2> QED BY Zenon, <1>1, <1>3, <2>1, <2>2, CutOffKeeps 
<1> QED BY Zenon, <1>2, <1>3 DEF Crash

\* The failures that nobody looks at although they leave a store that is going
\* to be marked without what it is to hold.
LostFailures == Parts \cup {"sync", "copy_segment"}

LEMMA FaultKeeps ==
    ASSUME StoreInv, NEW k \in Kernels, Fault(k), FaultySteps \cap LostFailures = {}
    PROVE  StoreInv'
<1>0. PICK w : w = kernel[k]
  OBVIOUS
<1>1. /\ w \in Kernel /\ CallOK(w) /\ OpenOK(w) /\ w.by # "none"
      /\ w.step \notin Parts \cup {"none", "sync", "copy_segment"}
  BY <1>0, Own DEF Fault, Busy, LostFailures, CallOK
<1>2. UNCHANGED <<setup, saved, removing>>
  BY Zenon DEF Fault, Same
<1>3. disk \in [Paths -> Store] /\ Place(k) \in Paths
  BY Zenon, <1>0, <1>1, PlaceIs DEF StoreInv, TypeOK
<1>4. CASE w.step \in {"release", "mark"}
  <2>1. HalfWritten(disk[Place(k)], w.step) = disk[Place(k)]
    BY Zenon, <1>4 DEF HalfWritten, Parts
  <2>2. UNCHANGED disk
    BY Zenon, <1>0, <1>3, <2>1 DEF Fault
  <2>3. PICK x : x = Finish(w)
    OBVIOUS
  <2>4. kernel' = [kernel EXCEPT ![k] = x]
    BY Zenon, <1>0, <1>1, <1>4, <2>3 DEF Fault, Ignored
  <2>5. CASE w.step = "release"
    <3>1. SyncOrRelease(k)
      BY Zenon, <1>0, <2>2, <2>3, <2>4, <2>5 DEF SyncOrRelease, Passed, Proceed, Same, Fault
    <3> QED BY Zenon, <3>1, SyncOrReleaseKeeps
  <2>6. CASE w.step = "mark"
    <3>1. OpenOK(x) /\ OpeningOK(x) /\ BuildingOK(x) /\ UuidOK(x)
      <4>1. CASE w.by = "snapshot"
        <5>1. x = OpenKernel(w) /\ w.open /\ w.path \in Paths
          BY <1>1, <2>3, <2>6, <4>1, NextStep, FinishIs DEF CallOK
        <5>2. x.by = "none" /\ x.open /\ x.ro = w.ro /\ x.path = w.path /\ x.mem = w.mem
          BY Zenon, <1>1, <5>1, OpenIs 
        <5>3. OpenOK(x)
          BY ZenonT(60), <1>1, <5>1, <5>2 DEF OpenOK
        <5> QED BY ZenonT(60), <5>2, <5>3, BetweenCalls 
      <4>2. CASE w.by # "snapshot"
        <5>1. w.by \in {"close", "copy"}
          BY ZenonT(60), <1>1, <2>6, <4>2 DEF CallOK, Parts
        <5>2. x = IdleKernel
          BY ZenonT(60), <1>1, <2>3, <2>6, <5>1, NextStep, FinishIs
        <5> QED BY Zenon, <5>2, IdleOK 
      <4> QED BY Zenon, <4>1, <4>2 
    <3>2. SameCall(w, kernel[k])
      BY Zenon, <1>0 DEF SameCall
    <3> QED BY ZenonT(60), <1>1, <1>2, <2>2, <2>3, <2>4, <2>6, <3>1, <3>2, ProceedKeeps 
  <2> QED BY Zenon, <1>4, <2>5, <2>6
<1>5. CASE w.step \notin {"release", "mark"}
  <2>1. PICK x : x = Abort(kernel[k])
    OBVIOUS
  <2>2. /\ kernel' = [kernel EXCEPT ![k] = x]
        /\ disk' = [disk EXCEPT ![Place(k)] = HalfWritten(@, kernel[k].step)]
    BY Zenon, <1>0, <1>1, <1>5, <2>1 DEF Fault, Ignored
  <2>3. kernel[k].open => Place(k) # kernel[k].path
    BY ZenonT(60), <1>0, <1>1, <1>5 DEF CallOK, Place
  <2> QED BY Zenon, <1>0, <1>1, <1>2, <2>1, <2>2, <2>3, CutOffKeeps 
<1> QED BY Zenon, <1>4, <1>5

-----------------------------------------------------------------------------
(* The theorems.                                                           *)

LEMMA StoreInitInv == Init => StoreInv
<1> SUFFICES ASSUME Init PROVE StoreInv
  OBVIOUS
<1>1. EmptyStore \in Store /\ ForeignStore \in Store
  <2>1. NoData \in Data /\ [x \in Items |-> 1] \in Data
    BY DEF NoData, Data, Absent
  <2>2. EmptyStore \in Store
    BY Zenon, <2>1 DEF EmptyStore, Store, Absent
  <2> QED BY Zenon, <2>1, <2>2 DEF ForeignStore, Store
<1>2. /\ ~EmptyStore.mark /\ EmptyStore.version = "none"
      /\ ForeignStore.version = "other" /\ ForeignStore.uuid # Absent
  <2>1. ~EmptyStore.mark /\ EmptyStore.version = "none"
    BY Zenon DEF EmptyStore
  <2> QED BY <1>1, <2>1 DEF ForeignStore, Store, Absent, EmptyStore
<1>3. TypeOK
  <2>1. disk \in [Paths -> Store]
    BY Zenon, <1>1 DEF Init
  <2>2. saved \in [Paths -> Data]
    BY Zenon, <2>1 DEF Init, Store
  <2>3. \A k \in Kernels : kernel[k] = IdleKernel
    BY Zenon DEF Init
  <2> QED BY Zenon, <2>1, <2>2, <2>3, IdleIs DEF Init, TypeOK
<1>4. \A p \in Paths : StoreOK(p)
  BY Zenon, <1>2 DEF Init, StoreOK, Complete
<1>5. \A k \in Kernels : KernelOK(kernel[k])
  BY Zenon, IdleOK DEF Init, KernelOK
<1>6. \A j, k \in Kernels : j # k => Apart(kernel[j], kernel[k])
  BY Zenon, ApartIdle, IdleIs DEF Init, BothApart
<1> QED BY Zenon, <1>3, <1>4, <1>5, <1>6 DEF StoreInv

LEMMA StoreStepInv ==
    ASSUME FaultySteps \cap LostFailures = {}, StoreInv, [Next]_vars
    PROVE  StoreInv'
<1>1. CASE UNCHANGED vars
  <2>1. ASSUME NEW k \in Kernels  PROVE KernelOK(kernel[k])'
    <3>1. /\ OpenOK(kernel[k]) /\ OpeningOK(kernel[k]) /\ BuildingOK(kernel[k])
          /\ UuidOK(kernel[k])
      BY Zenon DEF StoreInv, KernelOK
    <3>2. OpenOK(kernel[k])' /\ OpeningOK(kernel[k])'
      BY Zenon, <1>1, <3>1 DEF vars, OpenOK, OpeningOK
    <3>3. SnapshotOK(kernel[k])' /\ CopyOK(kernel[k])'
      BY Zenon, <1>1, <3>1 DEF vars, BuildingOK, SnapshotOK, CopyOK
    <3>4. BuildingOK(kernel[k])' /\ UuidOK(kernel[k])'
      BY Zenon, <1>1, <3>1, <3>3 DEF vars, BuildingOK, UuidOK
    <3> QED BY Zenon, <3>2, <3>4 DEF KernelOK
  <2>2. \A p \in Paths : StoreOK(p)' = StoreOK(p)
    BY Zenon, <1>1 DEF vars, StoreOK, Complete
  <2>3. TypeOK'
    BY Zenon, <1>1 DEF vars, StoreInv, TypeOK
  <2> QED BY Zenon, <1>1, <2>1, <2>2, <2>3 DEF vars, StoreInv
<1>2. CASE Next
  <2>1. setup.kernels \subseteq Kernels /\ setup.paths \subseteq Paths
    BY Zenon, SetupAssumption DEF StoreInv, TypeOK
  <2>2. PICK k \in Kernels :
            \/ \E p \in Paths : Create(k, p) \/ Remove(k, p) \/ Snapshot(k, p)
            \/ \E p \in Paths, ro \in BOOLEAN : Open(k, p, ro)
            \/ \E p, q \in Paths : Copy(k, p, q)
            \/ \E p \in Paths : set_description(p) \/ get_description(p)
            \/ Close(k) \/ Mutate(k)
            \/ Check(k) \/ CheckSource(k) \/ RemoveOne(k) \/ RemoveLast(k)
            \/ CreateRoot(k) \/ CreateMng(k) \/ priv_unmark_properly_closed(k)
            \/ CreateSegment(k) \/ WriteMetadata(k) \/ OpenSegment(k)
            \/ priv_deserialize_management_data(k) \/ Serialize(k)
            \/ SyncOrRelease(k) \/ CopySegment(k) \/ CopyMng(k)
            \/ priv_mark_properly_closed(k) \/ Fault(k) \/ Crash(k)
    BY ZenonT(60), <1>2, <2>1 DEF Next
  <2> QED BY ZenonT(60), <2>2, CreateKeeps, SnapshotKeeps, OpenKeeps, CopyKeeps, DescriptionKeeps,
             CloseKeeps,
             MutateKeeps, CheckKeeps, CheckSourceKeeps, RemoveOneKeeps, RemoveLastKeeps,
             CreateRootKeeps, CreateMngKeeps, UnmarkKeeps, CreateSegmentKeeps, WriteMetadataKeeps,
             OpenSegmentKeeps, DeserializeKeeps, SerializeKeeps, SyncOrReleaseKeeps,
             CopySegmentKeeps, CopyMngKeeps, MarkKeeps, FaultKeeps, CrashKeeps 
<1> QED BY Zenon, <1>1, <1>2 

\* Whatever kernels do to stores, alone or at the same time, and whenever they
\* crash, the invariant holds: as long as no step fails whose failure the code
\* does not look at.
THEOREM StoreInvariant ==
    ASSUME FaultySteps \cap LostFailures = {}
    PROVE  Spec => []StoreInv
<1>1. Init => StoreInv
  BY Zenon, StoreInitInv
<1>2. StoreInv /\ [Next]_vars => StoreInv'
  BY Zenon, StoreStepInv
<1> QED BY <1>1, <1>2, PTL DEF Spec

\* The properly-closed mark can be trusted: a marked store holds what was saved.
THEOREM MarkIsTrusted ==
    ASSUME FaultySteps \cap LostFailures = {}
    PROVE  Spec => []MarkedIsComplete
<1>1. StoreInv => MarkedIsComplete
  BY Zenon DEF StoreInv, StoreOK, MarkedIsComplete
<1> QED BY <1>1, StoreInvariant, PTL

\* A store that is open for writing carries no mark, and nobody else writes it.
THEOREM WritersUnmark ==
    ASSUME FaultySteps \cap LostFailures = {}
    PROVE  Spec => []UnmarkedWhileWritten
<1>1. StoreInv => UnmarkedWhileWritten
  BY ZenonT(60) DEF StoreInv, KernelOK, OpenOK, Apart, UnmarkedWhileWritten
<1> QED BY <1>1, StoreInvariant, PTL

\* Readers see what was saved for as long as they have the store open.
THEOREM ReadersSeeSaved ==
    ASSUME FaultySteps \cap LostFailures = {}
    PROVE  Spec => []ReadOnlySeesSaved
<1>1. StoreInv => ReadOnlySeesSaved
  BY Zenon DEF StoreInv, KernelOK, OpenOK, ReadOnlySeesSaved
<1> QED BY <1>1, StoreInvariant, PTL

-----------------------------------------------------------------------------
(* What a step may do.                                                     *)

\* The step of another kernel leaves a kernel as it is, and the description
\* calls leave all of them.
LEMMA StepOf ==
    ASSUME StoreInv, [Next]_vars, NEW k \in Kernels, kernel'[k] # kernel[k]
    PROVE  \/ \E p \in Paths : Create(k, p) \/ Remove(k, p) \/ Snapshot(k, p)
           \/ \E p \in Paths, ro \in BOOLEAN : Open(k, p, ro)
           \/ \E p, q \in Paths : Copy(k, p, q)
           \/ Close(k) \/ Mutate(k)
           \/ Check(k) \/ CheckSource(k) \/ RemoveLast(k)
           \/ CreateRoot(k) \/ CreateMng(k) \/ priv_unmark_properly_closed(k)
           \/ CreateSegment(k) \/ WriteMetadata(k) \/ OpenSegment(k)
           \/ priv_deserialize_management_data(k) \/ Serialize(k)
           \/ SyncOrRelease(k) \/ CopySegment(k) \/ CopyMng(k)
           \/ priv_mark_properly_closed(k) \/ Fault(k) \/ Crash(k)
<1>1. kernel \in [Kernels -> Kernel] /\ setup.kernels \subseteq Kernels /\ setup.paths \subseteq Paths
  BY Zenon, SetupAssumption DEF StoreInv, TypeOK
<1>2. PICK j \in setup.kernels :
        \/ \E p \in setup.paths : Create(j, p) \/ Remove(j, p) \/ Snapshot(j, p)
        \/ \E p \in setup.paths, ro \in BOOLEAN : Open(j, p, ro)
        \/ \E p, q \in setup.paths : Copy(j, p, q)
        \/ Close(j) \/ Mutate(j)
        \/ Check(j) \/ CheckSource(j) \/ RemoveLast(j)
        \/ CreateRoot(j) \/ CreateMng(j) \/ priv_unmark_properly_closed(j)
        \/ CreateSegment(j) \/ WriteMetadata(j) \/ OpenSegment(j)
        \/ priv_deserialize_management_data(j) \/ Serialize(j)
        \/ SyncOrRelease(j) \/ CopySegment(j) \/ CopyMng(j)
        \/ priv_mark_properly_closed(j) \/ Fault(j) \/ Crash(j)
  BY ZenonT(60) DEF Next, vars, set_description, get_description, RemoveOne
<1>3. \E x : kernel' = [kernel EXCEPT ![j] = x]
  <2>1. CASE \/ \E p \in setup.paths : Create(j, p) \/ Remove(j, p) \/ Snapshot(j, p)
             \/ \E p \in setup.paths, ro \in BOOLEAN : Open(j, p, ro)
             \/ \E p, q \in setup.paths : Copy(j, p, q)
             \/ Close(j)
    BY Zenon, <2>1 DEF Create, Remove, Snapshot, Open, Copy, Close, Begin
  <2>2. CASE Mutate(j)
    BY Zenon, <2>2, <1>1 DEF Mutate
  <2>3. CASE Check(j) \/ CheckSource(j) \/ OpenSegment(j) \/ priv_deserialize_management_data(j)
             \/ SyncOrRelease(j)
    BY Zenon, <2>3
    DEF Check, CheckSource, OpenSegment, priv_deserialize_management_data, SyncOrRelease,
                Passed, Proceed
  <2>4. CASE RemoveLast(j) \/ CreateRoot(j) \/ CreateMng(j) \/ priv_unmark_properly_closed(j)
             \/ WriteMetadata(j) \/ Serialize(j) \/ CopySegment(j) \/ CopyMng(j)
             \/ priv_mark_properly_closed(j)
    BY Zenon, <2>4
    DEF RemoveLast, CreateRoot, CreateMng, priv_unmark_properly_closed, WriteMetadata,
                Serialize, CopySegment, CopyMng, priv_mark_properly_closed, Proceed
  <2>5. CASE CreateSegment(j)
    BY Zenon, <2>5 DEF CreateSegment, Proceed
  <2>6. CASE Fault(j) \/ Crash(j)
    BY Zenon, <2>6 DEF Fault, Crash
  <2> QED BY Zenon, <1>2, <2>1, <2>2, <2>3, <2>4, <2>5, <2>6 
<1>4. j = k
  BY Zenon, <1>1, <1>3
<1> QED BY Zenon, <1>1, <1>2, <1>4 

\* An open that succeeds ends with priv_deserialize_management_data.
LEMMA OpenEnds ==
    ASSUME StoreInv, [Next]_vars, NEW k \in Kernels,
           ~kernel[k].open, kernel'[k].open, kernel[k].by = "open"
    PROVE  priv_deserialize_management_data(k)
<1>0. PICK w : w = kernel[k]
  BY Zenon 
<1>1. w \in Kernel /\ CallOK(w) /\ kernel \in [Kernels -> Kernel] /\ ~w.open /\ w.by = "open"
  BY Zenon, <1>0, Own DEF StoreInv, TypeOK
<1>2. w.step \in {"check", "unmark", "open_segment", "deserialize"}
  BY Zenon, <1>1 DEF CallOK
<1>3. \/ Check(k) \/ OpenSegment(k) \/ priv_unmark_properly_closed(k)
      \/ priv_deserialize_management_data(k) \/ Fault(k) \/ Crash(k)
  BY Zenon, <1>0, <1>1, <1>2, StepOf 
     DEF Create, Remove, Snapshot, Open, Copy, Close, Mutate, CheckSource, RemoveLast, CreateRoot,
         CreateMng, CreateSegment, WriteMetadata, Serialize, SyncOrRelease, CopySegment, CopyMng,
         priv_mark_properly_closed, Idle, Ready, Busy, Doing, Parts
<1>4. ~IdleKernel.open /\ Abort(w) = IdleKernel
  BY Zenon, <1>1, IdleIs DEF Abort
<1>5. w.step # "deserialize" => ~Finish(w).open
  <2> SUFFICES ASSUME w.step # "deserialize" PROVE ~Finish(w).open
    OBVIOUS
  <2>1. PICK n : n = Steps(w.by, w.ro)[w.step]
    BY Zenon 
  <2>2. n # "return"
    BY ZenonT(60), <1>1, <1>2, <2>1, NextStep 
  <2>3. Finish(w) = [w EXCEPT !.step = n]
    BY Zenon, <1>1, <2>1, <2>2, FinishIs
  <2> QED BY <1>1, <2>3, MovedIs
<1>6. ~(Check(k) \/ OpenSegment(k) \/ priv_unmark_properly_closed(k))
  BY Zenon, <1>0, <1>1, <1>4, <1>5 
     DEF Check, OpenSegment, priv_unmark_properly_closed, Passed, Proceed, Doing
<1>7. ~Crash(k)
  BY Zenon, <1>1, <1>4 DEF Crash
<1>8. ~Fault(k)
  BY Zenon, <1>0, <1>1, <1>2, <1>4 DEF Fault, Parts, Ignored
<1> QED BY Zenon, <1>3, <1>6, <1>7, <1>8

\* priv_open hands out what was saved last, or fails.
THEOREM OpenedIsSaved ==
    ASSUME FaultySteps \cap LostFailures = {}
    PROVE  Spec => OpenFindsSaved
<1>1. ASSUME StoreInv, [Next]_vars, NEW k \in Kernels,
             ~kernel[k].open, kernel'[k].open, kernel[k].by = "open"
      PROVE  kernel'[k].mem = saved[kernel[k].path]
  <2>0. PICK w : w = kernel[k]
    BY Zenon 
  <2>1. w \in Kernel /\ CallOK(w) /\ OpeningOK(w) /\ w.by = "open" /\ kernel \in [Kernels -> Kernel]
    BY ZenonT(60), <1>1, <2>0, Own DEF StoreInv, TypeOK
  <2>2. priv_deserialize_management_data(k)
    BY Zenon, <1>1, OpenEnds 
  <2>3. w.step = "deserialize" /\ w.dst = w.path /\ w.path \in Paths /\ ~w.open /\ Place(k) = w.path
    BY ZenonT(60), <2>0, <2>1, <2>2 DEF priv_deserialize_management_data, Doing, CallOK, Place, Parts
  <2>4. PICK data \in Data : data = disk[w.path].data
    BY Zenon, <1>1, <2>3 DEF StoreInv, TypeOK, Store
  <2>5. data = saved[w.path]
    BY Zenon, <2>1, <2>3, <2>4 DEF OpeningOK
  <2>6. PICK y : y = [w EXCEPT !.mem = data]
    BY Zenon 
  <2>7. kernel'[k] = Finish(y) \/ kernel'[k] = IdleKernel
    BY ZenonT(60), <1>1, <2>0, <2>1, <2>2, <2>3, <2>4, <2>6
    DEF priv_deserialize_management_data, Proceed, Abort
  <2>8. y \in Kernel /\ SameCall(y, w) /\ y.mem = data
    BY ZenonT(60), <2>1, <2>4, <2>6 DEF Kernel, SameCall
  <2>9. CallOK(y)
    BY ZenonT(60), <2>1, <2>8 DEF CallOK, SameCall
  <2>10. Finish(y) = OpenKernel(y) /\ y.path \in Paths
    BY <2>1, <2>3, <2>8, <2>9, NextStep, FinishIs DEF SameCall
  <2>11. kernel'[k] = OpenKernel(y)
    BY Zenon, <1>1, <2>7, <2>10, IdleIs 
  <2> QED BY ZenonT(60), <2>0, <2>5, <2>8, <2>10, <2>11, OpenIs
<1>2. StoreInv /\ [Next]_vars =>
          [\A k \in Kernels : ~kernel[k].open /\ kernel'[k].open /\ kernel[k].by = "open" =>
              kernel'[k].mem = saved[kernel[k].path]]_vars
  BY Zenon, <1>1 
<1> QED BY <1>2, StoreInvariant, PTL DEF Spec, OpenFindsSaved

\* Only priv_mark_properly_closed marks a store.
LEMMA MarkedBy ==
    ASSUME StoreInv, [Next]_vars, NEW q \in Paths, ~disk[q].mark, disk'[q].mark
    PROVE  \E j \in Kernels : priv_mark_properly_closed(j) /\ Place(j) = q
<1>1. /\ disk \in [Paths -> Store] /\ setup.kernels \subseteq Kernels /\ setup.paths \subseteq Paths
  BY Zenon, SetupAssumption DEF StoreInv, TypeOK
<1>2. PICK j \in Kernels :
        \/ \E p \in Paths : set_description(p)
        \/ Mutate(j) \/ RemoveOne(j) \/ RemoveLast(j)
        \/ CreateRoot(j) \/ CreateMng(j) \/ priv_unmark_properly_closed(j)
        \/ CreateSegment(j) \/ WriteMetadata(j) \/ Serialize(j)
        \/ CopySegment(j) \/ CopyMng(j)
        \/ priv_mark_properly_closed(j) \/ Fault(j) \/ Crash(j)
  <2>1. disk' # disk
    OBVIOUS
  <2> QED BY <1>1, <2>1, ZenonT(60)
      DEF Next, vars, Create, Remove, Snapshot, Open, Copy, Close, Begin, get_description, Check,
          CheckSource, OpenSegment, priv_deserialize_management_data, SyncOrRelease, Passed
<1>3. disk[q] \in Store
  BY Zenon, <1>1
<1>4. ASSUME NEW p \in Paths, set_description(p) PROVE FALSE
  BY Zenon, <1>1, <1>3, <1>4 DEF set_description, Store
<1>5. ~Mutate(j)
  <2> SUFFICES ASSUME NEW n, NEW p, disk' = [disk EXCEPT ![p].data["segment"] = n] PROVE FALSE
    BY Zenon DEF Mutate
  <2> QED BY Zenon, <1>1, <1>3 DEF Store
<1>6. ~RemoveOne(j)
  <2> SUFFICES ASSUME RemoveOne(j) PROVE FALSE
    OBVIOUS
  <2>1. CASE disk' = [disk EXCEPT ![Place(j)].mark = FALSE]
    BY Zenon, <1>1, <1>3, <2>1 DEF Store
  <2>2. CASE disk' = [disk EXCEPT ![Place(j)].version = "none", ![Place(j)].uuid = Absent]
    BY Zenon, <1>1, <1>3, <2>2 DEF Store
  <2>3. CASE disk' = [disk EXCEPT ![Place(j)].data = NoData]
    BY Zenon, <1>1, <1>3, <2>3 DEF Store
  <2>4. CASE disk' = [disk EXCEPT ![Place(j)].data["segment"] = Absent]
    BY Zenon, <1>1, <1>3, <2>4 DEF Store
  <2> QED BY Zenon, <2>1, <2>2, <2>3, <2>4 DEF RemoveOne
<1>7. ~RemoveLast(j)
  BY <1>1 DEF RemoveLast, EmptyStore
<1>8. ~(CreateRoot(j) \/ CreateMng(j) \/ priv_unmark_properly_closed(j))
  BY <1>1, <1>3 DEF CreateRoot, CreateMng, priv_unmark_properly_closed, Store
<1>9. ~(CreateSegment(j) \/ Serialize(j) \/ CopySegment(j))
  BY <1>1, <1>3 DEF CreateSegment, Serialize, CopySegment, Store
<1>10. ~WriteMetadata(j)
  <2> SUFFICES ASSUME NEW n, NEW p, disk' = [disk EXCEPT ![p].uuid = n, ![p].version = "current"]
               PROVE  FALSE
    BY Zenon DEF WriteMetadata
  <2> QED BY ZenonT(60), <1>1, <1>3 DEF Store
<1>11. ~CopyMng(j)
  <2> SUFFICES ASSUME CopyMng(j) PROVE FALSE
    OBVIOUS
  <2>1. PICK from, d :
            /\ from = disk[kernel[j].src]
            /\ d = [x \in Items |-> IF x \in Parts THEN from.data[x] ELSE disk[Place(j)].data[x]]
    BY Zenon 
  <2>2. disk' = [disk EXCEPT ![Place(j)] =
                    [disk[Place(j)] EXCEPT !.uuid = from.uuid, !.version = from.version,
                         !.description = from.description, !.data = d]]
    BY Zenon, <2>1 DEF CopyMng
  <2>3. disk'[q] = [disk[q] EXCEPT !.uuid = from.uuid, !.version = from.version,
                        !.description = from.description, !.data = d]
    <3>1. q # Place(j) => disk'[q] = disk[q]
      BY Zenon, <1>1, <2>2
    <3> QED BY Zenon, <1>1, <2>2, <3>1
  <2> QED BY Zenon, <1>3, <2>3 DEF Store
<1>12. ~(Fault(j) \/ Crash(j))
  <2> SUFFICES ASSUME disk' = [disk EXCEPT ![Place(j)] = HalfWritten(@, kernel[j].step)] PROVE FALSE
    BY Zenon DEF Fault, Crash
  <2>1. HalfWritten(disk[q], kernel[j].step).mark = disk[q].mark
    BY Zenon, <1>3, HalfIs 
  <2> QED BY Zenon, <1>1, <2>1
<1>13. priv_mark_properly_closed(j)
  BY ZenonT(60), <1>2, <1>4, <1>5, <1>6, <1>7, <1>8, <1>9, <1>10, <1>11, <1>12 
<1>14. Place(j) = q
  BY Zenon, <1>1, <1>13 DEF priv_mark_properly_closed
<1> QED BY Zenon, <1>13, <1>14 

\* A snapshot is marked only with a UUID that no other store has.
THEOREM SnapshotsAreOthers ==
    ASSUME FaultySteps \cap LostFailures = {}
    PROVE  Spec => SnapshotIsAnother
<1>1. ASSUME StoreInv, [Next]_vars, NEW k \in Kernels,
             Doing(k, "mark"), kernel[k].by = "snapshot", disk'[Place(k)].mark,
             NEW q \in Paths \ {Place(k)}
      PROVE  disk'[q].uuid # disk'[Place(k)].uuid
  <2>0. PICK w : w = kernel[k]
    BY Zenon 
  <2>1. /\ w \in Kernel /\ CallOK(w) /\ BuildingOK(w) /\ UuidOK(w) /\ w.by = "snapshot" /\ w.step = "mark"
    BY Zenon, <1>1, <2>0, Own DEF Doing
  <2>2. Place(k) = w.dst /\ w.dst \in Paths
    BY Zenon, <2>0, <2>1 DEF Place, Parts, CallOK
  <2>3. ~disk[w.dst].mark
    BY Zenon, <2>1 DEF BuildingOK, Builds, Parts
  <2>4. PICK j \in Kernels : priv_mark_properly_closed(j) /\ Place(j) = w.dst
    BY Zenon, <1>1, <2>2, <2>3, MarkedBy 
  <2>5. disk \in [Paths -> Store] /\ disk[w.dst] \in Store
    BY Zenon, <1>1, <2>2 DEF StoreInv, TypeOK
  <2>6. \A p \in Paths : disk'[p].uuid = disk[p].uuid
    BY Zenon, <2>4, <2>5 DEF priv_mark_properly_closed, Store
  <2> QED BY ZenonT(60), <1>1, <2>1, <2>2, <2>6 DEF UuidOK
<1>2. StoreInv /\ [Next]_vars =>
          [\A k \in Kernels :
              /\ Doing(k, "mark") /\ kernel[k].by = "snapshot" /\ disk'[Place(k)].mark
              => \A q \in Paths \ {Place(k)} : disk'[q].uuid # disk'[Place(k)].uuid]_vars
  BY Zenon, <1>1
<1> QED BY <1>2, StoreInvariant, PTL DEF Spec, SnapshotIsAnother
=============================================================================
