------------------------------- MODULE Program -------------------------------
(***************************************************************************)
(* What the parts of a program that uses a store have in common.           *)
(***************************************************************************)

CONSTANTS
    Threads,      \* of the program
    Names,        \* of named objects and of named memory
    None          \* nullptr: no name, no block, no kernel, no handle
=============================================================================
