---------------------------- MODULE ObjectEntries ----------------------------
(***************************************************************************)
(* What a directory of attributed objects promises: a set of entries, no   *)
(* two with the same offset and no two with the same name, that can be     *)
(* written to a file and loaded from it.                                   *)
(***************************************************************************)
CONSTANTS Directories, Names, Offsets, Descriptions, NoName, None

VARIABLES
    entries,     \* of each directory
    written      \* in the file; None if nothing is promised of what it holds

Entry == [name : Names \cup {NoName}, offset : Offsets, description : Descriptions]

Distinct(S) == \A e, f \in S :
                  e # f => e.offset # f.offset /\ (e.name = NoName \/ e.name # f.name)

EntriesInit == entries = [d \in Directories |-> {}] /\ written = None

\* One entry has another description.
Describe(S, T) ==
    \E e \in S, x \in Descriptions : T = (S \ {e}) \cup {[e EXCEPT !.description = x]}

\* One entry more, one less, one with another description, or none.
Change(S, T) ==
    \/ \E e \in Entry \ S : T = S \cup {e}
    \/ \E e \in S : T = S \ {e}
    \/ Describe(S, T)
    \/ T = {}

Call(d) == Change(entries[d], entries'[d]) /\ UNCHANGED written

\* All entries of the file, into a directory without any.
Load(d) ==
    /\ entries[d] = {}
    /\ written # None => entries'[d] = written
    /\ UNCHANGED written

\* The entries as they are or with one changed; writing may fail.
Write(d) ==
    /\ entries'[d] = entries[d] \/ Describe(entries[d], entries'[d])
    /\ written' \in {entries'[d], None}

EntriesNext ==
    \E d \in Directories :
        /\ Call(d) \/ Load(d) \/ Write(d)
        /\ Distinct(entries'[d])
        /\ \A c \in Directories \ {d} : entries'[c] = entries[c]

EntriesSpec == EntriesInit /\ [][EntriesNext]_<<entries, written>>
=============================================================================
