----------------------------- MODULE MpiAdaptor -----------------------------
(***************************************************************************)
(* A data store of an MPI program, utility/metall_mpi_adaptor.hpp with the *)
(* collectives of utility/mpi.hpp: every rank has a local store in a root  *)
(* directory, which the ranks of one node share.  All ranks make the same  *)
(* calls in the same order; a collective completes when all of them are in *)
(* it.  MPI_Abort ends all ranks and leaves the files as they are.         *)
(***************************************************************************)
EXTENDS Integers, FiniteSets, SequencesExt

CONSTANTS
    Size,        \* ranks of the communicator: 0 .. Size - 1
    Layouts,     \* the node of each rank, as sequences from rank 0
    Foreign,     \* another number of ranks, that old directories may be from
    MaxCalls,    \* bound: calls of a run
    MaxRuns,     \* bound: runs of the program
    None

Ranks == 0 .. Size - 1
Paths == {"p", "q"}
Ops == {"open", "open_read_only", "close", "remove", "local_root"} \X {FALSE}
         \cup {"create", "copy", "snapshot"} \X BOOLEAN   \* overwrite or not

VARIABLES
    layout,
    root,      \* path -> node -> None, or mark, partition size, local stores
    script,    \* the calls of this run, as far as some rank has come
    job,       \* each rank: calls begun, where it is, what it waits for
    shm,       \* node -> None, or the least rank written to the shared segment
    sent,      \* ranks that notified the next one in determine_local_root
    answer,    \* history: what each rank got for each call
    uneven,    \* history: a call began with the root on some nodes only
    runs       \* runs so far

vars == <<layout, root, script, job, shm, sent, answer, uneven, runs>>

Nodes == Range(layout)
Node(r) == layout[r + 1]
Empty == [mark |-> FALSE, size |-> None, stores |-> [r \in Ranks |-> "none"]]
Fresh == [calls |-> 0, at |-> "idle", coll |-> None, val |-> TRUE, then |-> "idle", i |-> 0, ok |-> TRUE]
Target(call) == IF call[1] \in {"copy", "snapshot"} THEN "q" ELSE "p"

\* Nothing, or what an earlier program of another size left at p.
Init ==
    /\ layout \in Layouts
    /\ \E old \in {None, [Empty EXCEPT !.mark = TRUE, !.size = Foreign]} :
          root = [p \in Paths |-> [n \in Nodes |-> IF p = "p" THEN old ELSE None]]
    /\ script = <<>> /\ job = [r \in Ranks |-> Fresh] /\ runs = 1
    /\ shm = [n \in Nodes |-> None] /\ sent = {}
    /\ answer = [r \in Ranks |-> <<>>] /\ uneven = FALSE

-----------------------------------------------------------------------------
Call(r) == script[job[r].calls][1]
Path(r) == Target(script[job[r].calls])
Root(r) == root[Path(r)][Node(r)]
Exists(r) == Root(r) # None
At(r, label) == job[r].at = label
Goto(r, label) == job' = [job EXCEPT ![r].at = label]

Others == UNCHANGED <<layout, script, shm, sent, answer, uneven, runs>>
Same == Others /\ UNCHANGED root

\* Enter a collective, and go to a label when it is complete.
Join(r, coll, val, label) ==
    job' = [job EXCEPT ![r].at = "wait", ![r].coll = coll, ![r].val = val, ![r].then = label]
JoinNext(r, label) ==
    job' = [job EXCEPT ![r].at = "wait", ![r].coll = "barrier", ![r].val = TRUE, ![r].then = label,
                       ![r].i = @ + 1]

Complete ==
    /\ \A r, s \in Ranks : At(r, "wait") /\ job[r].coll = job[s].coll
    /\ LET all == \A r \in Ranks : job[r].val
           some == \E r \in Ranks : job[r].val
       IN  job' = [r \in Ranks |-> [job[r] EXCEPT !.at = job[r].then, !.coll = None,
                      !.val = IF job[r].coll = "or" THEN some ELSE all]]
    /\ Same

\* MPI_Abort, or the job is killed.  The next run finds the stores that were open
\* inconsistent, as they are.
Aborted ==
    /\ runs < MaxRuns
    /\ runs' = runs + 1
    /\ script' = <<>> /\ job' = [r \in Ranks |-> Fresh] /\ answer' = [r \in Ranks |-> <<>>]
    /\ sent' = {} /\ uneven' = FALSE
    /\ UNCHANGED <<layout, shm>>
Kill == Aborted /\ UNCHANGED root

\* The call returns.
Return(r, v) ==
    /\ job' = [job EXCEPT ![r] = [Fresh EXCEPT !.calls = job[r].calls]]
    /\ answer' = [answer EXCEPT ![r] = Append(@, v)]
    /\ UNCHANGED <<layout, script, sent, uneven, runs>>

\* The first rank to get there decides the program's next call.
Begin(r, call) ==
    LET first == job[r].calls = Len(script)
        made(ops) == \E k \in 1 .. job[r].calls : script[k][1] \in ops
        open == made({"create", "open", "open_read_only"}) /\ ~made({"close"})
    IN  /\ At(r, "idle") /\ job[r].calls < MaxCalls
        /\ IF first THEN script' = Append(script, call)
           ELSE call = script[job[r].calls + 1] /\ UNCHANGED script
        /\ call[1] \in {"close", "snapshot"} => open
        /\ call[1] \in {"create", "open", "open_read_only", "remove", "copy"} => ~open
        /\ uneven' = (uneven \/ (first /\ \E m, n \in Nodes :
                         root[Target(call)][m] = None /\ root[Target(call)][n] # None))
        /\ job' = [job EXCEPT ![r].calls = @ + 1,
                      ![r].at = CASE call[1] \in {"create", "snapshot"} -> "setup"
                                  [] call[1] = "open_read_only" -> "open"
                                  [] OTHER -> call[1]]
        /\ UNCHANGED <<layout, root, shm, sent, answer, runs>>

-----------------------------------------------------------------------------
(* remove                                                                  *)

RightSize(r) == Exists(r) /\ Root(r).size = Size

\* A failed remove() before a creation: rank 0 aborts, the others go on.
Removed(r, v) ==
    \/ Call(r) = "remove" /\ Return(r, v) /\ UNCHANGED <<root, shm>>
    \/ Call(r) # "remove" /\ (v \/ r # 0) /\ Goto(r, "exists") /\ Same
    \/ Call(r) # "remove" /\ ~v /\ r = 0 /\ Kill

RemoveBegins(r) ==
    /\ At(r, "remove")
    /\ IF Exists(r) THEN Join(r, "and", Root(r).mark, "marked") /\ Same ELSE Removed(r, TRUE)

\* Mutant: the number in the file is not compared.
VerifyReadable(r, label) ==
    IF r = 0 /\ (~Exists(r) \/ Root(r).size = None) THEN Kill
    ELSE Join(r, "and", TRUE, label) /\ Same

\* priv_verify_num_partitions: rank 0 reads the file, and aborts without one.
VerifyPartitions(r, label) ==
    IF r = 0 /\ (~Exists(r) \/ Root(r).size = None) THEN Kill
    ELSE Join(r, "and", r = 0 => RightSize(r), label) /\ Same

RemoveMarked(r) ==
    /\ At(r, "marked")
    /\ IF job[r].val THEN VerifyPartitions(r, "counted") ELSE Removed(r, FALSE)

RemoveCounted(r) ==
    /\ At(r, "counted")
    /\ IF job[r].val
       THEN job' = [job EXCEPT ![r].at = "removing", ![r].i = 0, ![r].ok = TRUE] /\ Same
       ELSE Removed(r, FALSE)

\* One rank after the other; what remove_file could not remove stays.
Removing(r, ok) ==
    /\ At(r, "removing")
    /\ IF job[r].i = Size THEN ok /\ Join(r, "and", job[r].ok, "removed") /\ Same
       ELSE IF job[r].i # r \/ ~Exists(r) THEN ok /\ JoinNext(r, "removing") /\ Same
       ELSE /\ root' = IF ok THEN [root EXCEPT ![Path(r)][Node(r)] = None] ELSE root
            /\ job' = [job EXCEPT ![r].at = "wait", ![r].coll = "barrier", ![r].val = TRUE,
                                  ![r].then = "removing", ![r].i = @ + 1, ![r].ok = @ /\ ok]
            /\ Others

\* Mutant: a rank answers for itself.
RemoveEndsAlone(r) == At(r, "removed") /\ Removed(r, job[r].ok)

RemoveEnds(r) == At(r, "removed") /\ Removed(r, job[r].val)

-----------------------------------------------------------------------------
(* priv_setup_root_dir, and the local store that follows it                *)

Setup(r) ==
    /\ At(r, "setup")
    /\ Goto(r, IF script[job[r].calls][2] THEN "remove" ELSE "exists")
    /\ Same

SetupBegins(r) == At(r, "exists") /\ Join(r, "or", Exists(r), "absent") /\ Same

SetupAbsent(r) ==
    /\ At(r, "absent")
    /\ IF job[r].val /\ r = 0 THEN Kill
       ELSE /\ job' = [job EXCEPT ![r].at = "wait", ![r].coll = "barrier", ![r].val = TRUE,
                                  ![r].then = "making", ![r].i = 0]
            /\ Same

\* Directory, mark and size file; a step that fails aborts.
Making(r, done) ==
    /\ At(r, "making")
    /\ IF job[r].i = Size THEN done = 3 /\ Goto(r, "local") /\ Same
       ELSE IF job[r].i # r \/ Exists(r) THEN done = 3 /\ JoinNext(r, "making") /\ Same
       ELSE /\ root' = IF done = 0 THEN root
                       ELSE [root EXCEPT ![Path(r)][Node(r)] =
                               [Empty EXCEPT !.mark = (done > 1), !.size = IF done = 3 THEN Size ELSE None]]
            /\ IF done = 3 THEN JoinNext(r, "making") /\ Others
               ELSE Aborted

Store(r, path, state) == root' = [root EXCEPT ![path][Node(r)].stores[r] = state]

\* The local store: created and open, or copied and closed.  A creation that fails
\* throws, which ends the run.
Local(r, ok) ==
    /\ At(r, "local") /\ Exists(r)
    /\ IF Call(r) = "create"
       THEN Store(r, "p", "open") /\ (IF ok THEN Return(r, TRUE) /\ UNCHANGED shm ELSE Aborted)
       ELSE /\ IF ok THEN Store(r, "q", "closed") ELSE UNCHANGED root
            /\ Join(r, "and", ok, "answered")
            /\ Others

Answered(r) == At(r, "answered") /\ Return(r, job[r].val) /\ UNCHANGED <<root, shm>>

-----------------------------------------------------------------------------
(* open, close and copy                                                    *)

Open(r) ==
    \/ At(r, "open") /\ VerifyPartitions(r, "verified")
    \/ At(r, "verified") /\ ~(job[r].val /\ Exists(r) /\ Root(r).stores[r] = "closed") /\ Kill
    \/ /\ At(r, "verified") /\ job[r].val /\ Exists(r) /\ Root(r).stores[r] = "closed"
       /\ IF Call(r) = "open" THEN Store(r, "p", "open") ELSE UNCHANGED root
       /\ Return(r, TRUE) /\ UNCHANGED shm

\* The destructor.
Close(r) ==
    /\ At(r, "close")
    /\ IF Exists(r) /\ Root(r).stores[r] = "open" THEN Store(r, "p", "closed") ELSE UNCHANGED root
    /\ Join(r, "barrier", TRUE, "answered")
    /\ Others

Consistent(r) == root["p"][Node(r)] # None /\ root["p"][Node(r)].stores[r] = "closed"

Copy(r) ==
    \/ At(r, "copy") /\ Join(r, "and", Consistent(r), "consistent") /\ Same
    \/ At(r, "consistent") /\ job[r].val /\ Goto(r, "setup") /\ Same
    \/ At(r, "consistent") /\ ~job[r].val /\ Return(r, FALSE) /\ UNCHANGED <<root, shm>>

-----------------------------------------------------------------------------
(* mpi::determine_local_root                                               *)

LocalRootBegins(r) ==
    /\ At(r, "local_root")
    /\ shm' = [shm EXCEPT ![Node(r)] = None]
    /\ sent' = sent \ {r}
    /\ Join(r, "barrier", TRUE, "chain")
    /\ UNCHANGED <<layout, root, script, answer, uneven, runs>>

\* MPI_Recv from rank - 1, the segment, MPI_Send to rank + 1.
LocalRootChain(r) ==
    /\ At(r, "chain")
    /\ r = 0 \/ r - 1 \in sent
    /\ sent' = sent \cup {r}
    /\ LET least == shm[Node(r)]
           made == least = None
       IN  /\ shm' = [shm EXCEPT ![Node(r)] = IF made THEN r ELSE Min({least, r})]
           /\ job' = [job EXCEPT ![r].at = "wait", ![r].coll = "barrier", ![r].val = TRUE,
                                 ![r].then = "mapped", ![r].ok = made]
    /\ UNCHANGED <<layout, root, script, answer, uneven, runs>>

\* i keeps the rank that was read.
LocalRootRead(r) ==
    /\ At(r, "mapped")
    /\ job' = [job EXCEPT ![r].at = "wait", ![r].coll = "barrier", ![r].val = TRUE,
                          ![r].then = "unlink", ![r].i = shm[Node(r)]]
    /\ Same

LocalRootEnds(r) ==
    /\ At(r, "unlink")
    /\ shm' = IF job[r].ok THEN [shm EXCEPT ![Node(r)] = None] ELSE shm
    /\ Return(r, job[r].i) /\ UNCHANGED root

-----------------------------------------------------------------------------
Over == runs = MaxRuns /\ UNCHANGED vars

Next ==
    \/ Complete \/ Kill \/ Over
    \/ \E r \in Ranks :
        \/ \E call \in Ops : Begin(r, call)
        \/ RemoveBegins(r) \/ RemoveMarked(r) \/ RemoveCounted(r) \/ RemoveEnds(r)
        \/ \E ok \in BOOLEAN : Removing(r, ok) \/ Local(r, ok)
        \/ Setup(r) \/ SetupBegins(r) \/ SetupAbsent(r) \/ \E done \in 0 .. 3 : Making(r, done)
        \/ Answered(r) \/ Open(r) \/ Close(r) \/ Copy(r)
        \/ LocalRootBegins(r) \/ LocalRootChain(r) \/ LocalRootRead(r) \/ LocalRootEnds(r)

Spec == Init /\ [][Next]_vars

-----------------------------------------------------------------------------
(* Properties.                                                             *)

\* All ranks that wait are in the same collective; a rank that left a call early
\* leaves the others waiting for ever ("Returns true if all processes success;
\* otherwise, returns false").
SameCollective ==
    \A r, s \in Ranks : At(r, "wait") /\ At(s, "wait") =>
        job[r].coll = job[s].coll /\ job[r].calls = job[s].calls

\* Unless a call began with the directory on some nodes only: the ranks meet in
\* the same collectives, get the same answer of remove, copy and snapshot, and
\* have local stores only in directories with mark and number of their size.
RanksAgree ==
    ~uneven =>
        /\ SameCollective
        /\ \A r, s \in Ranks : \A k \in 1 .. Min({Len(answer[r]), Len(answer[s])}) :
              IF script[k][1] = "local_root" THEN answer[r][k] = Min({x \in Ranks : Node(x) = Node(r)})
              ELSE answer[r][k] = answer[s][k]
        /\ \A p \in Paths, r \in Ranks :
              LET d == root[p][Node(r)]
              IN  d # None => d.stores[r] = "none" \/ (d.mark /\ d.size = Size)

\* A directory of a program of another size is never removed or changed ("This
\* mode does not overwrite an existing datastore if it is not Metall datastore
\* created by the same number of MPI processes").
OthersKept ==
    [][\A p \in Paths, n \in Nodes : root[p][n] # None /\ root[p][n].size = Foreign =>
          root[p][n]' = root[p][n]]_vars
=============================================================================
