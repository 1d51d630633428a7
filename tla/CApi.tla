--------------------------------- MODULE CApi ---------------------------------
(***************************************************************************)
(* The C interface (metall.h, metall_c.cpp): managers behind opaque        *)
(* pointers, with the checks that open, create and remove make before they *)
(* call the C++ manager, which checks again (priv_open) or does not        *)
(* (priv_create).                                                          *)
(***************************************************************************)
EXTENDS Program

CONSTANTS
    Callers,      \* threads or processes that use the interface
    Paths,
    Handles       \* metall_manager pointers

VARIABLES
    store,     \* at each path: "absent", "marked" (closed properly) or "unmarked"
    names,     \* at each path: the names in the store
    manager,   \* of each handle: None or [path, readonly]
    call,      \* of each caller: None or the call it is in
    errno,     \* what the last call of each caller left
    pulled     \* history: a store was removed while it was open

cVars == <<store, names, manager, call, errno, pulled>>

CInit ==
    /\ store = [p \in Paths |-> "absent"]
    /\ names = [p \in Paths |-> {}]
    /\ manager = [h \in Handles |-> None]
    /\ call = [c \in Callers |-> None]
    /\ errno = [c \in Callers |-> "0"]
    /\ pulled = FALSE

Done(c, e) ==
    /\ errno' = [errno EXCEPT ![c] = e]
    /\ call' = [call EXCEPT ![c] = None]

Goes(c, step) == call' = [call EXCEPT ![c] = step] /\ UNCHANGED errno

Opened(p) == \E h \in Handles : manager[h] # None /\ manager[h].path = p

FreeHandle == CHOOSE h \in Handles : manager[h] = None
HandleLeft == \E h \in Handles : manager[h] = None

-----------------------------------------------------------------------------

\* open_impl up to the construction of the manager.
OpenCheck(c, p, readonly) ==
    /\ call[c] = None
    /\ IF store[p] = "marked" THEN Goes(c, [do |-> "open", path |-> p, readonly |-> readonly])
       ELSE Done(c, "ENOTRECOVERABLE")
    /\ UNCHANGED <<store, names, manager, pulled>>

\* What priv_open checks again.
consistent(p) == store[p] = "marked"

\* Mutant: the mark stays.
OpenKeepsMark(c) ==
    /\ call[c] # None /\ call[c].do = "open"
    /\ consistent(call[c].path) /\ HandleLeft
    /\ manager' = [manager EXCEPT ![FreeHandle] =
                      [path |-> call[c].path, readonly |-> call[c].readonly]]
    /\ Done(c, "0")
    /\ UNCHANGED <<store, names, pulled>>

\* The constructor: a writer removes the mark and may fail after it.
OpenManager(c) ==
    /\ call[c] # None /\ call[c].do = "open"
    /\ LET p == call[c].path IN
       IF ~consistent(p)
       THEN Done(c, "ENOTRECOVERABLE") /\ UNCHANGED <<store, manager>>
       ELSE /\ store' = [store EXCEPT ![p] = IF call[c].readonly THEN @ ELSE "unmarked"]
            /\ \/ HandleLeft /\ Done(c, "0")
                  /\ manager' = [manager EXCEPT ![FreeHandle] =
                                    [path |-> p, readonly |-> call[c].readonly]]
               \/ Done(c, "ENOTRECOVERABLE") /\ UNCHANGED manager
    /\ UNCHANGED <<names, pulled>>

\* metall_create: the path must not exist when it is looked at.
CreateCheck(c, p) ==
    /\ call[c] = None
    /\ IF store[p] # "absent" THEN Done(c, "EEXIST")
       ELSE Goes(c, [do |-> "create", path |-> p, readonly |-> FALSE])
    /\ UNCHANGED <<store, names, manager, pulled>>

\* The constructor removes what is at the path and makes a store, or fails
\* half-way.
CreateManager(c) ==
    /\ call[c] # None /\ call[c].do = "create"
    /\ store' = [store EXCEPT ![call[c].path] = "unmarked"]
    /\ names' = [names EXCEPT ![call[c].path] = {}]
    /\ \/ HandleLeft /\ Done(c, "0")
          /\ manager' = [manager EXCEPT ![FreeHandle] =
                            [path |-> call[c].path, readonly |-> FALSE]]
       \/ Done(c, "ENOTRECOVERABLE") /\ UNCHANGED manager
    /\ UNCHANGED pulled

\* metall_close; whatever is at the path gets the mark of a writer.
metall_close(c, h) ==
    /\ call[c] = None /\ manager[h] # None
    /\ store' = [store EXCEPT ![manager[h].path] =
                    IF manager[h].readonly \/ @ = "absent" THEN @ ELSE "marked"]
    /\ manager' = [manager EXCEPT ![h] = None]
    /\ Done(c, "0") /\ UNCHANGED <<names, pulled>>

\* metall_remove: no check at all.
metall_remove(c, p) ==
    /\ call[c] = None /\ store[p] # "absent"
    /\ pulled' = (pulled \/ Opened(p))
    /\ store' = [store EXCEPT ![p] = "absent"]
    /\ names' = [names EXCEPT ![p] = {}]
    /\ Done(c, "0") /\ UNCHANGED manager

\* metall_named_malloc: a name in use, no memory and a read-only store all
\* give the same error.
metall_named_malloc(c, h, n, ok) ==
    /\ call[c] = None /\ manager[h] # None
    /\ IF ok /\ ~manager[h].readonly /\ n \notin names[manager[h].path]
       THEN names' = [names EXCEPT ![manager[h].path] = @ \cup {n}] /\ Done(c, "0")
       ELSE UNCHANGED names /\ Done(c, "ENOMEM")
    /\ UNCHANGED <<store, manager, pulled>>

metall_find(c, h, n) ==
    /\ call[c] = None /\ manager[h] # None
    /\ Done(c, IF n \in names[manager[h].path] THEN "0" ELSE "ENOENT")
    /\ UNCHANGED <<store, names, manager, pulled>>

metall_named_free(c, h, n) ==
    /\ call[c] = None /\ manager[h] # None
    /\ IF n \in names[manager[h].path] /\ ~manager[h].readonly
       THEN names' = [names EXCEPT ![manager[h].path] = @ \ {n}] /\ Done(c, "0")
       ELSE UNCHANGED names /\ Done(c, "ENOENT")
    /\ UNCHANGED <<store, manager, pulled>>

CNext ==
    \E c \in Callers :
        \/ \E p \in Paths : \/ \E readonly \in BOOLEAN : OpenCheck(c, p, readonly)
                            \/ CreateCheck(c, p) \/ metall_remove(c, p)
        \/ OpenManager(c) \/ CreateManager(c)
        \/ \E h \in Handles :
            \/ metall_close(c, h)
            \/ \E n \in Names : \/ metall_find(c, h, n) \/ metall_named_free(c, h, n)
                                \/ \E ok \in BOOLEAN : metall_named_malloc(c, h, n, ok)

CSpec == CInit /\ [][CNext]_cVars

-----------------------------------------------------------------------------
(* Properties.                                                             *)

\* With one caller the mark keeps a second writer out, through every sequence
\* of opens, failed opens, closes and creates, as long as no store is removed
\* while it is open: a store open for writing has no mark and one writer.
WriterAlone ==
    \A h, g \in Handles :
        ~pulled /\ manager[h] # None /\ ~manager[h].readonly =>
            /\ store[manager[h].path] = "unmarked"
            /\ g # h /\ manager[g] # None /\ ~manager[g].readonly =>
                   manager[g].path # manager[h].path

=============================================================================
