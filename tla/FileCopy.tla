------------------------------ MODULE FileCopy ------------------------------
(***************************************************************************)
(* Copying and cloning the files of a directory, detail/file.hpp and       *)
(* detail/file_clone.hpp: snapshot() and copy() move block files and       *)
(* management data with them.                                              *)
(*                                                                         *)
(* Threads take files from a shared counter.  A file is a sequence of      *)
(* blocks, 0 being a hole.  Every system call may fail, and a              *)
(* copy_file_range may copy less than it was asked for.  Descriptors are   *)
(* numbers of one table that all threads share.                            *)
(***************************************************************************)
EXTENDS Integers, Sequences, FiniteSetsExt

CONSTANTS
    Source,     \* the content of each file of the source directory
    Threads,    \* the most threads a call may start
    Fds,        \* bound: descriptor numbers
    None

Files == DOMAIN Source
Ways == {"clone", "sparse", "dense"}

VARIABLES
    way,      \* clone_file, or copy_file with or without sparse_copy
    threads,  \* the threads started
    next,     \* file_no_cnt
    done,     \* num_successes
    result,   \* what the call returned, or None
    table,    \* the open descriptors: who opened them, the file, the cursor
    target,   \* the destination files
    job,      \* each thread: its step, file, way of copying, src, dst, offset
    cut,      \* history: files whose dense copy stopped short
    foreign   \* history: a thread closed a descriptor it had not opened

vars == <<way, threads, next, done, result, table, target, job, cut, foreign>>

Resting == [at |-> "take", file |-> 0, way |-> "dense", src |-> None,
            dst |-> None, off |-> 0]

Init ==
    /\ way \in Ways
    /\ threads = None /\ next = 1 /\ done = 0 /\ result = None
    /\ table = [n \in Fds |-> None]
    /\ target = [f \in Files |-> None]
    /\ job = [t \in Threads |-> Resting]
    /\ cut = {} /\ foreign = FALSE

-----------------------------------------------------------------------------
(* The call: copy_files_in_directory_in_parallel_helper.                   *)

\* hardware_concurrency() may be unknown, 0: no thread is started then.
Start(T) ==
    /\ threads = None /\ result = None
    /\ Cardinality(T) <= Cardinality(Files)
    /\ threads' = T
    /\ UNCHANGED <<way, next, done, result, table, target, job, cut, foreign>>

\* get_regular_file_names fails.
ListingFails ==
    /\ threads = None /\ result = None
    /\ result' = FALSE
    /\ UNCHANGED <<way, threads, next, done, table, target, job, cut, foreign>>

Join ==
    /\ threads # None /\ result = None
    /\ \A t \in threads : job[t].at = "end"
    /\ result' = (done = Len(Source))
    /\ UNCHANGED <<way, threads, next, done, table, target, job, cut, foreign>>

Take(t) ==
    /\ job[t].at = "take"
    /\ next' = next + 1
    /\ job' = [job EXCEPT ![t] =
           IF next > Len(Source) THEN [Resting EXCEPT !.at = "end"]
           ELSE [Resting EXCEPT !.at = "open", !.file = next, !.way = way]]
    /\ UNCHANGED <<way, threads, done, result, table, target, cut, foreign>>

\* num_successes.fetch_add
Count(t, n) == /\ done' = done + n
               /\ job' = [job EXCEPT ![t] = Resting]

-----------------------------------------------------------------------------
(* One file.                                                               *)

Lowest(S) == Min({n \in Fds : table[n] = None} \ S)
Room == Cardinality({n \in Fds : table[n] = None}) >= 2
Opened(t) == [by |-> t, file |-> job[t].file, cur |-> 0]

\* os_close of some descriptors, whoever opened them.
Closed(S) == [n \in Fds |-> IF n \in S THEN None ELSE table[n]]
Foreign(t, S) == \E n \in S \cap Fds : table[n] # None /\ table[n].by # t

\* prepare_file_copy_linux.  The destination is created or truncated.
Prepare(t) ==
    LET s == Lowest({})
        d == Lowest({s}) IN
    /\ job[t].at = "open" /\ Room
    /\ table' = [table EXCEPT ![s] = Opened(t), ![d] = Opened(t)]
    /\ target' = [target EXCEPT ![job[t].file] = <<>>]
    /\ job' = [job EXCEPT ![t].at = job[t].way, ![t].src = s, ![t].dst = d, ![t].off = 0]
    /\ UNCHANGED <<way, threads, next, done, result, cut, foreign>>

\* It fails, having closed what it opened.  The number in src may be that of
\* the descriptor it closed, and dst may be uninitialized.  The dense copy
\* closes both again, the others give up.
PrepareFails(t, s, d) ==
    /\ job[t].at = "open"
    /\ s \in {None} \cup {n \in Fds : table[n] = None}
    /\ IF job[t].way = "dense"
       THEN /\ job' = [job EXCEPT ![t].at = "close", ![t].src = s, ![t].dst = d]
            /\ UNCHANGED done
       ELSE s = None /\ d = None /\ Count(t, 0)
    /\ UNCHANGED <<way, threads, next, result, table, target, cut, foreign>>

\* The source and the destination that the descriptors lead to; an operation on
\* a number that is not open fails.
Reach(t) == job[t].src \in Fds /\ job[t].dst \in Fds
            /\ table[job[t].src] # None /\ table[job[t].dst] # None
From(t) == Source[table[job[t].src].file]
To(t) == table[job[t].dst]

\* clone_file_linux: all or nothing; a sparse copy follows.
Clone(t, ok) ==
    /\ job[t].at = "clone"
    /\ ok => Reach(t)
    /\ target' = IF ok THEN [target EXCEPT ![To(t).file] = From(t)] ELSE target
    /\ job' = [job EXCEPT ![t].at = IF ok THEN "done" ELSE "sparse"]
    /\ UNCHANGED <<way, threads, next, done, result, table, cut, foreign>>

\* A file with `blocks' written at a cursor.
Written(old, cur, blocks) ==
    [i \in 1 .. Max({Len(old), cur + Len(blocks)}) |->
        IF i \in cur + 1 .. cur + Len(blocks) THEN blocks[i - cur]
        ELSE IF i <= Len(old) THEN old[i] ELSE 0]

Resized(old, n) == [i \in 1 .. n |-> IF i <= Len(old) THEN old[i] ELSE 0]

\* Mutant: the hole before the data is not recreated.
HoleForgotten(off, data) == 0

\* create_hole_linux moves the cursor over the hole.
create_hole_linux(off, data) == data - 1 - off

DataFrom(s, off) == {i \in DOMAIN s : i > off /\ s[i] # 0}

\* One round of copy_file_sparse_linux: SEEK_DATA, a hole in the destination,
\* SEEK_HOLE, and as much of the data as copy_file_range takes.
SparseRound(t, n) ==
    LET s == From(t)
        first == Min(DataFrom(s, job[t].off))
        end == Min({i \in first .. Len(s) + 1 : i = Len(s) + 1 \/ s[i] = 0})
        cur == To(t).cur + create_hole_linux(job[t].off, first)
    IN  /\ job[t].at = "sparse" /\ Reach(t) /\ DataFrom(s, job[t].off) # {}
        /\ n <= end - first
        /\ target' = [target EXCEPT ![To(t).file] =
                         Written(@, cur, SubSeq(s, first, first + n - 1))]
        /\ table' = [table EXCEPT ![job[t].dst].cur = cur + n]
        /\ job' = [job EXCEPT ![t].off = first - 1 + n]
        /\ UNCHANGED <<way, threads, next, done, result, cut, foreign>>

\* SEEK_DATA reports ENXIO: a hole at the end becomes the file's length.
SparseEnd(t) ==
    /\ job[t].at = "sparse" /\ Reach(t) /\ DataFrom(From(t), job[t].off) = {}
    /\ target' = IF job[t].off < Len(From(t))
                 THEN [target EXCEPT ![To(t).file] = Resized(@, Len(From(t)))]
                 ELSE target
    /\ job' = [job EXCEPT ![t].at = "done"]
    /\ UNCHANGED <<way, threads, next, done, result, table, cut, foreign>>

\* copy_file_dense_linux: one copy_file_range, whose count is not looked at.
Dense(t, n) ==
    /\ job[t].at = "dense" /\ Reach(t) /\ n <= Len(From(t))
    /\ target' = [target EXCEPT ![To(t).file] = Written(@, 0, SubSeq(From(t), 1, n))]
    /\ cut' = IF n < Len(From(t)) THEN cut \cup {job[t].file} ELSE cut
    /\ job' = [job EXCEPT ![t].at = "done"]
    /\ UNCHANGED <<way, threads, next, done, result, table, foreign>>

\* Some call of a sparse or dense copy fails.
CopyFails(t) ==
    /\ job[t].at \in {"sparse", "dense"}
    /\ job' = [job EXCEPT ![t].at = "close"]
    /\ UNCHANGED <<way, threads, next, done, result, table, target, cut, foreign>>

Mine(t) == {job[t].src, job[t].dst} \cap Fds

\* The descriptors are closed and the next way is tried.
FallBack(t) ==
    /\ job[t].at = "close"
    /\ table' = Closed(Mine(t))
    /\ foreign' = (foreign \/ Foreign(t, Mine(t)))
    /\ job' = [job EXCEPT ![t] =
           [Resting EXCEPT !.file = job[t].file, !.way = "dense",
                !.at = IF job[t].way = "dense" THEN "copy" ELSE "open"]]
    /\ UNCHANGED <<way, threads, next, done, result, target, cut>>

\* copy_file_dense: std::filesystem::copy_file.
copy_file_dense(t, ok) ==
    /\ job[t].at = "copy"
    /\ target' = IF ok THEN [target EXCEPT ![job[t].file] = Source[job[t].file]]
                 ELSE target
    /\ cut' = IF ok THEN cut \ {job[t].file} ELSE cut
    /\ Count(t, IF ok THEN 1 ELSE 0)
    /\ UNCHANGED <<way, threads, next, result, table, foreign>>

\* The copy is synced and closed.
Finish(t) ==
    /\ job[t].at = "done"
    /\ table' = Closed(Mine(t))
    /\ foreign' = (foreign \/ Foreign(t, Mine(t)))
    /\ Count(t, 1)
    /\ UNCHANGED <<way, threads, next, result, target, cut>>

CopyOne(t) ==
    \/ Take(t) \/ Prepare(t)
    \/ \E s, d \in Fds \cup {None} : PrepareFails(t, s, d)
    \/ \E ok \in BOOLEAN : Clone(t, ok) \/ copy_file_dense(t, ok)
    \/ \E n \in 1 .. Max({Len(Source[f]) : f \in Files}) :
          SparseRound(t, n) \/ Dense(t, n)
    \/ SparseEnd(t) \/ CopyFails(t) \/ FallBack(t) \/ Finish(t)

Returned == result # None /\ UNCHANGED vars

Next ==
    \/ \E T \in SUBSET Threads : Start(T)
    \/ ListingFails \/ Join \/ Returned
    \/ threads # None /\ \E t \in threads : CopyOne(t)

Spec == Init /\ [][Next]_vars

-----------------------------------------------------------------------------
(* Properties.                                                             *)

\* When the directory copy returns true, every destination file has the length
\* and the content of its source, holes included, however the ways of copying
\* failed and fell back; and no descriptor stays open, whatever it returns.
\* Excepted are files whose single copy_file_range of the dense copy stopped
\* short, and everything after a thread closed a descriptor of another one.
CopiedWhole ==
    result # None /\ ~foreign =>
        /\ \A n \in Fds : table[n] = None
        /\ result => \A f \in Files \ cut : target[f] = Source[f]
=============================================================================
