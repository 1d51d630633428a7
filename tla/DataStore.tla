------------------------------ MODULE DataStore ------------------------------
(***************************************************************************)
(* The life of a data store: create, open, close, snapshot, copy, remove   *)
(* and the description file, manager_kernel_impl.ipp and storage.hpp,      *)
(* as steps on the files of the store.                                     *)
(*                                                                         *)
(* A kernel object works through the file operations of one call, one      *)
(* step at a time; its process may crash between two steps or in the       *)
(* middle of a write, and a step named in FaultySteps may fail.  The       *)
(* content of a file is an epoch: the number of the change it reflects.    *)
(* The segment file is mapped shared, so it follows the memory.            *)
(***************************************************************************)
EXTENDS Integers, Sequences, FiniteSets

CONSTANTS
    Paths,              \* base paths of data stores
    Kernels,            \* manager_kernel objects, each in a process of its own
    Setups,             \* what a behaviour may begin with: the paths and kernels
                        \* it uses, whether another version left stores there, and
                        \* the number of epochs and UUIDs in use at one time (bound)
    FaultySteps         \* steps whose file operation may fail

ASSUME SetupAssumption ==
    Setups \subseteq [paths : SUBSET Paths, kernels : SUBSET Kernels,
                      foreign : BOOLEAN, epochs : Nat]

ASSUME PathAssumption == "none" \notin Paths

Absent == 0
Torn == -1

Parts == {"named", "unique", "anonymous", "allocator"}
Items == Parts \cup {"segment"}
NoData == [x \in Items |-> Absent]

\* A store directory: root is the directory storage::create makes, mng the
\* management directory below it.
EmptyStore ==
    [root |-> FALSE, mng |-> FALSE, mark |-> FALSE, uuid |-> Absent,
     version |-> "none", description |-> FALSE, data |-> NoData]

\* A store that another version of Metall closed.
ForeignStore ==
    [EmptyStore EXCEPT !.root = TRUE, !.mng = TRUE, !.mark = TRUE,
        !.uuid = 1, !.version = "other", !.data = [x \in Items |-> 1]]

\* A kernel between two calls or in one: the call, its next step, the store it
\* works on, the store it builds and the one it reads from.
IdleKernel ==
    [by |-> "none", step |-> "none", open |-> FALSE, ro |-> FALSE,
     path |-> "none", dst |-> "none", src |-> "none",
     mem |-> NoData, intent |-> NoData]

VARIABLES
    setup,      \* the member of Setups the behaviour began with
    disk,       \* the files of every store
    kernel,     \* the kernel objects and where they are in their calls
    saved,      \* history: what the store is to hold since it was marked
    removing,   \* history: stores whose removal began and was not followed by a
                \* creation, and copies of such stores
    result      \* the last call that returned a value to the user

vars == <<setup, disk, kernel, saved, removing, result>>

Init ==
    /\ setup \in Setups
    /\ disk = [p \in Paths |-> IF setup.foreign /\ p \in setup.paths THEN ForeignStore
                               ELSE EmptyStore]
    /\ kernel = [k \in Kernels |-> IdleKernel]
    /\ saved = [p \in Paths |-> disk[p].data]
    /\ removing = {}
    /\ result = [op |-> "none", ok |-> TRUE, path |-> "none"]

-----------------------------------------------------------------------------
(* What callers may do: the API leaves two calls that modify one store at  *)
(* the same time, and a copy of a store that is being written, undefined;  *)
(* and a store is not opened for writing while others have it open.        *)

Busy(k) == kernel[k].step # "none"

\* The stores the rest of a call writes: a snapshot serialises first.
TargetsOf(r) ==
    IF r.step = "none" THEN {}
    ELSE IF r.by = "snapshot" /\ r.step \in Parts THEN {r.path, r.dst}
    ELSE {r.dst}

Targets(k) == TargetsOf(kernel[k])
Quiet(p) == \A k \in Kernels : p \notin Targets(k)
NotCopied(p) == \A k \in Kernels : Busy(k) => kernel[k].src # p
Unused(p) == /\ Quiet(p) /\ NotCopied(p)
             /\ \A k \in Kernels : ~(kernel[k].open /\ kernel[k].path = p)

\* Nothing in the code keeps a writer from opening a store that others read.
NotRead(p) == \A k \in Kernels : ~(kernel[k].ro /\ kernel[k].path = p)

Idle(k) == ~Busy(k) /\ ~kernel[k].open
Ready(k) == ~Busy(k) /\ kernel[k].open

\* The epoch of a new change and the UUID of a new store: the lowest number not
\* in use.
Lowest(n, used) == n \notin used /\ \A m \in 1 .. n - 1 : m \in used

NewEpoch(n) ==
    /\ n \in 1 .. setup.epochs
    /\ Lowest(n, UNION {{disk[p].data[x], saved[p][x]} : p \in Paths, x \in Items}
                 \cup {kernel[k].mem[x] : k \in Kernels, x \in Items})
NewUuid(n) ==
    /\ n \in 1 .. setup.epochs + 1
    /\ Lowest(n, {disk[p].uuid : p \in Paths})

\* priv_consistent: marked, metadata readable, this version of Metall.
priv_consistent(p) == disk[p].mark /\ disk[p].version = "current"

-----------------------------------------------------------------------------
(* The calls, as the file operations they perform: every step is followed  *)
(* by the next, "call" by the first one.                                   *)

\* priv_create: storage::create, the management directory, the mark, the
\* segment, then UUID and version.
CreateSteps ==
    [call |-> "remove", remove |-> "create_root", create_root |-> "create_mng",
     create_mng |-> "unmark", unmark |-> "create_segment",
     create_segment |-> "write_metadata", write_metadata |-> "return"]

\* Mutant: a read-only open removes the mark as well.
OpenStepsUnmark(ro) ==
    [call |-> "check", check |-> "unmark", unmark |-> "open_segment",
     open_segment |-> "deserialize", deserialize |-> "return"]

\* Mutant: a store opened for writing keeps its mark.
OpenStepsMarked(ro) ==
    [call |-> "check", check |-> "open_segment", open_segment |-> "deserialize",
     deserialize |-> "return"]

\* priv_open: metadata, version and mark are checked; the mark is removed
\* unless the store is opened read-only; segment; management data.
OpenSteps(ro) ==
    [call |-> "check", check |-> IF ro THEN "open_segment" ELSE "unmark",
     unmark |-> "open_segment", open_segment |-> "deserialize",
     deserialize |-> "return"]

\* Mutant: the mark is written before the management data.
CloseStepsMarkFirst(ro) ==
    [call |-> IF ro THEN "release" ELSE "mark", mark |-> "named",
     named |-> "unique", unique |-> "anonymous", anonymous |-> "allocator",
     allocator |-> "sync", sync |-> "release", release |-> "return"]

\* close: priv_serialize_management_data, sync, release, mark.
CloseSteps(ro) ==
    [call |-> IF ro THEN "release" ELSE "named",
     named |-> "unique", unique |-> "anonymous", anonymous |-> "allocator",
     allocator |-> "sync", sync |-> "release",
     release |-> IF ro THEN "return" ELSE "mark", mark |-> "return"]

\* Mutant: a snapshot keeps the metadata it copied.
SnapshotKeepsUuid(ro) ==
    [call |-> IF ro THEN "remove" ELSE "named",
     named |-> "unique", unique |-> "anonymous", anonymous |-> "allocator",
     allocator |-> "remove", remove |-> "create_root",
     create_root |-> "create_mng", create_mng |-> "snapshot_segment",
     snapshot_segment |-> "copy_mng", copy_mng |-> "mark", mark |-> "return"]

\* priv_snapshot: serialised, then a new store with a UUID of its own.
SnapshotSteps(ro) ==
    [call |-> IF ro THEN "remove" ELSE "named",
     named |-> "unique", unique |-> "anonymous", anonymous |-> "allocator",
     allocator |-> "remove", remove |-> "create_root",
     create_root |-> "create_mng", create_mng |-> "snapshot_segment",
     snapshot_segment |-> "copy_mng", copy_mng |-> "write_metadata",
     write_metadata |-> "mark", mark |-> "return"]

\* priv_copy_data_store: the source must be consistent.
CopySteps ==
    [call |-> "check_source", check_source |-> "remove", remove |-> "create_root",
     create_root |-> "copy_segment", copy_segment |-> "create_mng",
     create_mng |-> "copy_mng", copy_mng |-> "mark", mark |-> "return"]

\* priv_remove_data_store.
RemoveSteps == [call |-> "remove", remove |-> "return"]

Steps(by, ro) ==
    CASE by = "create" -> CreateSteps
      [] by = "open" -> OpenSteps(ro)
      [] by = "close" -> CloseSteps(ro)
      [] by = "snapshot" -> SnapshotSteps(ro)
      [] by = "copy" -> CopySteps
      [] by = "remove" -> RemoveSteps

\* Kernel k, as r says, begins a call.
Begin(k, r) ==
    /\ kernel' = [kernel EXCEPT ![k] = [r EXCEPT !.step = Steps(r.by, r.ro)["call"]]]
    /\ UNCHANGED <<setup, disk, saved, removing, result>>

Create(k, p) ==
    /\ Idle(k) /\ Unused(p)
    /\ Begin(k, [IdleKernel EXCEPT !.by = "create", !.path = p, !.dst = p])

Open(k, p, ro) ==
    /\ Idle(k) /\ Quiet(p)
    /\ ro \/ (NotCopied(p) /\ NotRead(p))
    /\ Begin(k, [IdleKernel EXCEPT !.by = "open", !.path = p, !.dst = p, !.ro = ro])

Close(k) ==
    /\ Ready(k) /\ Quiet(kernel[k].path)
    /\ Begin(k, [kernel[k] EXCEPT !.by = "close", !.dst = kernel[k].path,
                                  !.intent = kernel[k].mem])

Snapshot(k, dst) ==
    /\ Ready(k) /\ Quiet(kernel[k].path) /\ Unused(dst)
    /\ Begin(k, [kernel[k] EXCEPT !.by = "snapshot", !.src = kernel[k].path,
                                  !.dst = dst, !.intent = kernel[k].mem])

Copy(k, src, dst) ==
    /\ Idle(k) /\ Quiet(src) /\ Unused(dst) /\ src # dst
    /\ Begin(k, [IdleKernel EXCEPT !.by = "copy", !.path = dst, !.dst = dst, !.src = src])

Remove(k, p) ==
    /\ Idle(k) /\ Unused(p)
    /\ Begin(k, [IdleKernel EXCEPT !.by = "remove", !.path = p, !.dst = p])

\* Allocations and constructions of the application change the segment file
\* at once, and the management data in memory.
Mutate(k) ==
    /\ Ready(k) /\ ~kernel[k].ro
    /\ \E n \in 1 .. setup.epochs :
        /\ NewEpoch(n)
        /\ kernel' = [kernel EXCEPT ![k].mem = [x \in Items |-> n]]
        /\ disk' = [disk EXCEPT ![kernel[k].path].data["segment"] = n]
    /\ UNCHANGED <<setup, saved, removing, result>>

\* priv_write_description, for a store that is open or not.  The description
\* calls are left out where there are two stores: they touch one file of one.
set_description(p) ==
    /\ Cardinality(setup.paths) = 1 /\ Quiet(p)
    /\ disk' = [disk EXCEPT ![p].description = disk[p].mng]
    /\ result' = [op |-> "set_description", ok |-> disk[p].mng, path |-> p]
    /\ UNCHANGED <<setup, kernel, saved, removing>>

\* priv_read_description.
get_description(p) ==
    /\ Cardinality(setup.paths) = 1 /\ Quiet(p)
    /\ result' = [op |-> "get_description", path |-> p, ok |-> disk[p].description]
    /\ UNCHANGED <<setup, disk, kernel, saved, removing>>

-----------------------------------------------------------------------------
(* The steps.  Finish goes on to the next, or ends the call.               *)

Doing(k, name) == kernel[k].step = name
Place(k) == IF kernel[k].step \in Parts THEN kernel[k].path ELSE kernel[k].dst

OpenKernel(r) == [IdleKernel EXCEPT !.open = TRUE, !.ro = r.ro,
                                    !.path = r.path, !.mem = r.mem]

Finish(r) ==
    LET next == Steps(r.by, r.ro)[r.step] IN
    IF next # "return" THEN [r EXCEPT !.step = next]
    ELSE IF r.by \in {"create", "open", "snapshot"} THEN OpenKernel(r)
    ELSE IdleKernel

Proceed(k, r) == kernel' = [kernel EXCEPT ![k] = Finish(r)]

\* A failure ends the call.  A kernel that was open stays open.
Abort(r) == IF r.open THEN OpenKernel(r) ELSE IdleKernel

Same == UNCHANGED <<setup, saved, removing, result>>

\* A step without effect on the disk whose failure ends the call.
Passed(k, ok) ==
    /\ IF ok THEN Proceed(k, kernel[k])
       ELSE kernel' = [kernel EXCEPT ![k] = Abort(@)]
    /\ UNCHANGED disk /\ Same

\* Mutant: the mark is looked at in a read-only open only.
CheckReadOnly(k) ==
    /\ Doing(k, "check")
    /\ Passed(k, /\ disk[Place(k)].version = "current"
                 /\ kernel[k].ro => disk[Place(k)].mark)

\* priv_read_management_metadata, priv_check_version and priv_properly_closed.
Check(k) == /\ Doing(k, "check")
            /\ Passed(k, priv_consistent(Place(k)))

CheckSource(k) ==
    /\ Doing(k, "check_source")
    /\ IF priv_consistent(kernel[k].src)
       THEN Proceed(k, [kernel[k] EXCEPT !.intent = saved[kernel[k].src]])
       ELSE kernel' = [kernel EXCEPT ![k] = Abort(@)]
    /\ UNCHANGED disk /\ Same

\* storage::create and storage::remove delete the directory, file by file in
\* an order of the file system's own.
RemoveOne(k) ==
    /\ Doing(k, "remove")
    /\ LET p == Place(k) IN
       /\ \/ /\ disk[p].mark
             /\ disk' = [disk EXCEPT ![p].mark = FALSE]
          \/ /\ disk[p].version # "none"
             /\ disk' = [disk EXCEPT ![p].version = "none", ![p].uuid = Absent]
          \/ /\ disk[p].data # NoData
             /\ disk' = [disk EXCEPT ![p].data = NoData]
          \/ /\ disk[p].data["segment"] # Absent
             /\ disk' = [disk EXCEPT ![p].data["segment"] = Absent]
       /\ removing' = removing \cup {p}
    /\ UNCHANGED <<setup, kernel, saved, result>>

RemoveLast(k) ==
    /\ Doing(k, "remove")
    /\ ~disk[Place(k)].mark /\ disk[Place(k)].version = "none"
    /\ disk[Place(k)].data = NoData
    /\ disk' = [disk EXCEPT ![Place(k)] = EmptyStore]
    /\ removing' = removing \cup {Place(k)}
    /\ Proceed(k, kernel[k])
    /\ UNCHANGED <<setup, saved, result>>

CreateRoot(k) ==
    /\ Doing(k, "create_root")
    /\ disk' = [disk EXCEPT ![Place(k)].root = TRUE]
    /\ removing' = IF kernel[k].src \in removing THEN removing \cup {Place(k)}
                   ELSE removing \ {Place(k)}
    /\ Proceed(k, kernel[k])
    /\ UNCHANGED <<setup, saved, result>>

CreateMng(k) ==
    /\ Doing(k, "create_mng")
    /\ disk' = [disk EXCEPT ![Place(k)].mng = TRUE]
    /\ Proceed(k, kernel[k]) /\ Same

priv_unmark_properly_closed(k) ==
    /\ Doing(k, "unmark")
    /\ disk' = [disk EXCEPT ![Place(k)].mark = FALSE]
    /\ Proceed(k, kernel[k]) /\ Same

\* segment_storage::create; the segment starts with a content of its own.
CreateSegment(k) ==
    /\ Doing(k, "create_segment")
    /\ \E n \in 1 .. setup.epochs :
        /\ NewEpoch(n)
        /\ disk' = [disk EXCEPT ![Place(k)].data["segment"] = n]
        /\ Proceed(k, [kernel[k] EXCEPT !.mem = [x \in Items |-> n]])
    /\ Same

\* priv_set_uuid, priv_set_version and priv_write_management_metadata.
WriteMetadata(k) ==
    /\ Doing(k, "write_metadata")
    /\ \E n \in 1 .. setup.epochs + 1 :
        /\ NewUuid(n)
        /\ disk' = [disk EXCEPT ![Place(k)].uuid = n, ![Place(k)].version = "current"]
    /\ Proceed(k, kernel[k]) /\ Same

OpenSegment(k) == /\ Doing(k, "open_segment")
                  /\ Passed(k, disk[Place(k)].data["segment"] # Absent)

\* priv_deserialize_management_data: a missing file is an error.
priv_deserialize_management_data(k) ==
    /\ Doing(k, "deserialize")
    /\ LET data == disk[Place(k)].data IN
       IF \A x \in Parts : data[x] # Absent
       THEN Proceed(k, [kernel[k] EXCEPT !.mem = data])
       ELSE kernel' = [kernel EXCEPT ![k] = Abort(@)]
    /\ UNCHANGED disk /\ Same

\* priv_serialize_management_data, one of its four files.
Serialize(k) ==
    /\ kernel[k].step \in Parts
    /\ disk' = [disk EXCEPT ![Place(k)].data[kernel[k].step] =
                    kernel[k].mem[kernel[k].step]]
    /\ Proceed(k, kernel[k]) /\ Same

\* segment_storage::sync and release.
SyncOrRelease(k) == /\ kernel[k].step \in {"sync", "release"}
                    /\ Passed(k, TRUE)

CopySegment(k) ==
    /\ kernel[k].step \in {"copy_segment", "snapshot_segment"}
    /\ disk' = [disk EXCEPT ![Place(k)].data["segment"] =
                    disk[kernel[k].src].data["segment"]]
    /\ Proceed(k, kernel[k]) /\ Same

\* The files of the management directory: parts, metadata and description.
CopyMng(k) ==
    /\ Doing(k, "copy_mng")
    /\ LET s == disk[kernel[k].src]
           d == disk[Place(k)]
       IN  disk' = [disk EXCEPT ![Place(k)] =
               [d EXCEPT !.uuid = s.uuid, !.version = s.version,
                    !.description = s.description,
                    !.data = [x \in Items |-> IF x \in Parts THEN s.data[x] ELSE d.data[x]]]]
    /\ Proceed(k, kernel[k]) /\ Same

\* priv_mark_properly_closed.
priv_mark_properly_closed(k) ==
    /\ Doing(k, "mark")
    /\ disk' = [disk EXCEPT ![Place(k)].mark = TRUE]
    /\ saved' = [saved EXCEPT ![Place(k)] = kernel[k].intent]
    /\ Proceed(k, kernel[k])
    /\ UNCHANGED <<setup, removing, result>>

\* The file that a step writes, as it is left when the step does not end.
HalfWritten(s, name) ==
    IF name \in Parts THEN [s EXCEPT !.data[name] = Torn]
    ELSE IF name \in {"copy_segment", "snapshot_segment", "sync"}
    THEN [s EXCEPT !.data["segment"] = Torn]
    ELSE IF name = "copy_mng"
    THEN [s EXCEPT !.data = [x \in Items |-> IF x \in Parts THEN Torn ELSE s.data[x]]]
    ELSE s

\* Failures the code does not look at: close and snapshot ignore the result of
\* priv_serialize_management_data, which gives up at the first file it cannot
\* write; close ignores sync, release and mark, priv_copy_data_store the segment.
Ignored == {"sync", "release", "mark", "copy_segment"}

Fault(k) ==
    /\ Busy(k) /\ kernel[k].step \in FaultySteps
    /\ disk' = [disk EXCEPT ![Place(k)] = HalfWritten(@, kernel[k].step)]
    /\ kernel' = [kernel EXCEPT ![k] =
           IF @.step \in Parts THEN Finish([@ EXCEPT !.step = "allocator"])
           ELSE IF @.step \in Ignored THEN Finish(@)
           ELSE Abort(@)]
    /\ Same

\* The process dies, between two steps or while it writes a file.
Crash(k) ==
    /\ kernel[k] # IdleKernel
    /\ kernel' = [kernel EXCEPT ![k] = IdleKernel]
    /\ \/ UNCHANGED disk
       \/ /\ Busy(k)
          /\ disk' = [disk EXCEPT ![Place(k)] = HalfWritten(@, kernel[k].step)]
    /\ Same

Next ==
    \E k \in setup.kernels :
        \/ \E p \in setup.paths : Create(k, p) \/ Remove(k, p) \/ Snapshot(k, p)
        \/ \E p \in setup.paths, ro \in BOOLEAN : Open(k, p, ro)
        \/ \E p, q \in setup.paths : Copy(k, p, q)
        \/ \E p \in setup.paths : set_description(p) \/ get_description(p)
        \/ Close(k) \/ Mutate(k)
        \/ Check(k) \/ CheckSource(k) \/ RemoveOne(k) \/ RemoveLast(k)
        \/ CreateRoot(k) \/ CreateMng(k) \/ priv_unmark_properly_closed(k)
        \/ CreateSegment(k) \/ WriteMetadata(k) \/ OpenSegment(k)
        \/ priv_deserialize_management_data(k) \/ Serialize(k)
        \/ SyncOrRelease(k) \/ CopySegment(k) \/ CopyMng(k)
        \/ priv_mark_properly_closed(k) \/ Fault(k) \/ Crash(k)

Spec == Init /\ [][Next]_vars

-----------------------------------------------------------------------------
(* Properties.                                                             *)

Complete(p) == /\ disk[p].data = saved[p]
               /\ disk[p].version # "none" /\ disk[p].uuid # Absent

\* A store that carries the properly-closed mark holds exactly what the kernel
\* that closed it, or the store it was copied from, held: no crash between two
\* file operations of create, open, close, snapshot or copy leaves a mark on
\* files of different ages.  A store whose removal was interrupted is excepted.
MarkedIsComplete ==
    \A p \in Paths : disk[p].mark /\ p \notin removing => Complete(p)

\* A store is not marked while a kernel has it open for writing
\* (manager_test.cpp: "Must be inconsistent before closing"), and no two
\* kernels have it open for writing at once.
UnmarkedWhileWritten ==
    \A k \in Kernels :
        kernel[k].open /\ ~kernel[k].ro =>
            /\ ~disk[kernel[k].path].mark
            /\ \A j \in Kernels \ {k} :
                kernel[j].open /\ kernel[j].path = kernel[k].path => kernel[j].ro

\* A read-only kernel works on what the last close saved, and the store keeps
\* its mark: opening, closing and crashing read-only kernels, and copying the
\* store meanwhile, leave it as it was.
ReadOnlySeesSaved ==
    \A k \in Kernels :
        LET p == kernel[k].path IN
        kernel[k].open /\ kernel[k].ro =>
            /\ disk[p].mark
            /\ kernel[k].mem = saved[p] /\ disk[p].data = saved[p]

\* Opening succeeds only with the content of the last close, snapshot or copy:
\* priv_open never takes over what a crashed kernel left.
OpenFindsSaved ==
    [][\A k \in Kernels :
        ~kernel[k].open /\ kernel'[k].open /\ kernel[k].by = "open" =>
            kernel'[k].mem = saved[kernel[k].path]]_vars

\* A snapshot is another store: when it is marked, no other store has its UUID.
SnapshotIsAnother ==
    [][\A k \in Kernels :
        /\ Doing(k, "mark") /\ kernel[k].by = "snapshot" /\ disk'[Place(k)].mark
        => \A q \in Paths \ {Place(k)} : disk'[q].uuid # disk'[Place(k)].uuid]_vars

-----------------------------------------------------------------------------
(* The inductive invariant of the proofs.                                  *)

Data == [Items -> Int]

Store == [root : BOOLEAN, mng : BOOLEAN, mark : BOOLEAN, uuid : Nat,
          version : {"none", "current", "other"}, description : BOOLEAN, data : Data]

Kernel == [by : {"none", "create", "open", "close", "snapshot", "copy", "remove"},
           step : Parts \cup {"none", "check", "unmark", "open_segment", "deserialize", "sync",
                              "release", "mark", "check_source", "remove", "create_root",
                              "create_mng", "create_segment", "write_metadata",
                              "copy_segment", "snapshot_segment", "copy_mng"},
           open : BOOLEAN, ro : BOOLEAN, path : Paths \cup {"none"},
           dst : Paths \cup {"none"}, src : Paths \cup {"none"}, mem : Data, intent : Data]

\* The steps of a call that is under way, and how its stores relate.
CallOK(r) ==
    /\ r.by # "none" => r.path \in Paths /\ r.dst \in Paths
    /\ \/ /\ r.by = "none" /\ r.step = "none" /\ r.src = "none"
          /\ IF r.open THEN r.path \in Paths ELSE ~r.ro
       \/ /\ r.by = "create" /\ ~r.open /\ ~r.ro /\ r.dst = r.path /\ r.src = "none"
          /\ r.step \in {"remove", "create_root", "create_mng", "unmark", "create_segment",
                         "write_metadata"}
       \/ /\ r.by = "open" /\ ~r.open /\ r.dst = r.path /\ r.src = "none"
          /\ r.step \in {"check", "open_segment", "deserialize"} \/ (~r.ro /\ r.step = "unmark")
       \/ /\ r.by = "close" /\ r.open /\ r.dst = r.path /\ r.src = "none"
          /\ r.step = "release" \/ (~r.ro /\ r.step \in Parts \cup {"sync", "mark"})
       \/ /\ r.by = "snapshot" /\ r.open /\ r.dst # r.path /\ r.src = r.path
          /\ \/ r.step \in {"remove", "create_root", "create_mng", "snapshot_segment", "copy_mng",
                            "write_metadata", "mark"}
             \/ ~r.ro /\ r.step \in Parts
       \/ /\ r.by = "copy" /\ ~r.open /\ ~r.ro /\ r.dst = r.path /\ r.src \in Paths \ {r.dst}
          /\ r.step \in {"check_source", "remove", "create_root", "copy_segment", "create_mng",
                         "copy_mng", "mark"}
       \/ /\ r.by = "remove" /\ ~r.open /\ ~r.ro /\ r.dst = r.path /\ r.src = "none"
          /\ r.step = "remove"

\* The variables have their types, and calls their steps.
TypeOK ==
    /\ setup \in Setups
    /\ disk \in [Paths -> Store]
    /\ saved \in [Paths -> Data]
    /\ removing \subseteq Paths
    /\ kernel \in [Kernels -> Kernel]
    /\ \A k \in Kernels : CallOK(kernel[k])

Builds == {"create", "copy", "snapshot"}
Takes == Builds \cup {"remove"}

\* Two kernels keep apart: the stores they write differ, nobody reads or copies
\* a store that is being made, removed or opened for writing, and a store that
\* somebody has open for writing is open nowhere else.
Apart(r, w) ==
    /\ TargetsOf(r) \cap TargetsOf(w) = {}
    /\ w.by \in Takes \/ (w.by = "open" /\ ~w.ro) =>
          r.src # w.dst /\ ~(r.ro /\ r.path = w.dst)
    /\ w.by \in Takes \/ (w.by = "open" /\ ~w.ro /\ w.step # "check") =>
          ~(r.open /\ r.path = w.dst)
    /\ r.open /\ w.open /\ r.path = w.path => r.ro /\ w.ro

\* A marked store has what was saved, or lost its segment to a removal that was
\* interrupted.
StoreOK(p) ==
    /\ disk[p].version # "none" => disk[p].uuid # Absent
    /\ disk[p].mark => disk[p].data = saved[p] \/ disk[p].data["segment"] = Absent
    /\ disk[p].mark /\ p \notin removing => Complete(p)

\* The parts priv_serialize_management_data has written before a step.
WrittenBefore(step) ==
    CASE step = "named" -> {}
      [] step = "unique" -> {"named"}
      [] step = "anonymous" -> {"named", "unique"}
      [] step = "allocator" -> {"named", "unique", "anonymous"}
      [] OTHER -> Parts

\* A kernel that has a store open, and what it has serialised of it.
OpenOK(r) ==
    r.open =>
        LET s == disk[r.path] IN
        /\ ~r.ro => /\ ~s.mark /\ s.version = "current" /\ s.uuid # Absent
                    /\ s.data["segment"] = r.mem["segment"]
        /\ r.ro => s.mark /\ r.mem = saved[r.path] /\ s.data = saved[r.path]
        /\ r.by # "none" =>
              /\ r.intent = r.mem
              /\ ~r.ro => \A x \in WrittenBefore(r.step) : s.data[x] = r.mem[x]

\* A kernel that is opening a store and found it consistent.
OpeningOK(r) ==
    r.by = "open" /\ r.step # "check" =>
        LET s == disk[r.path] IN
        /\ s.version = "current" /\ s.uuid # Absent
        /\ s.data = saved[r.path] \/ s.data["segment"] = Absent
        /\ s.mark <=> r.ro \/ r.step = "unmark"
        /\ r.step = "deserialize" => s.data["segment"] # Absent

\* A snapshot and a copy: what the new store holds so far.
SnapshotOK(r) ==
    r.by = "snapshot" =>
        LET d == disk[r.dst] IN
        /\ r.step \in {"copy_mng", "write_metadata", "mark"} =>
              d.data["segment"] = r.intent["segment"]
        /\ r.step \in {"write_metadata", "mark"} =>
              \A x \in Parts : d.data[x] = r.intent[x]
        /\ r.step = "mark" => d.version = "current" /\ d.uuid # Absent

CopyOK(r) ==
    r.by = "copy" /\ r.step # "check_source" =>
        LET s == disk[r.src]  d == disk[r.dst] IN
        /\ s.mark /\ r.intent = saved[r.src]
        /\ r.step \in {"copy_segment", "create_mng", "copy_mng", "mark"} /\ r.src \in removing =>
              r.dst \in removing
        /\ r.step \in {"create_mng", "copy_mng", "mark"} =>
              d.data["segment"] = s.data["segment"]
        /\ r.step = "mark" =>
              /\ \A x \in Parts : d.data[x] = s.data[x]
              /\ d.version = s.version /\ d.uuid = s.uuid

\* A kernel that makes a store.
BuildingOK(r) ==
    /\ r.by \in Builds /\ r.step \notin Parts \cup {"check_source", "remove"} =>
          ~disk[r.dst].mark
    /\ r.by = "create" /\ r.step = "write_metadata" =>
          disk[r.dst].data["segment"] = r.mem["segment"]
    /\ SnapshotOK(r) /\ CopyOK(r)

\* The UUID of a snapshot that is about to be marked is its own.
UuidOK(r) ==
    r.by = "snapshot" /\ r.step = "mark" =>
        \A q \in Paths \ {r.dst} : disk[q].uuid # disk[r.dst].uuid

KernelOK(r) == OpenOK(r) /\ OpeningOK(r) /\ BuildingOK(r) /\ UuidOK(r)

StoreInv ==
    /\ TypeOK
    /\ \A j, k \in Kernels : j # k => Apart(kernel[j], kernel[k])
    /\ \A p \in Paths : StoreOK(p)
    /\ \A k \in Kernels : KernelOK(kernel[k])
=============================================================================
