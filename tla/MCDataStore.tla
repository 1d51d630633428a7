----------------------------- MODULE MCDataStore -----------------------------
(***************************************************************************)
(* Data stores for TLC: one kernel after the other on two stores, two      *)
(* kernels on two stores, and two kernels taking turns on one store that   *)
(* another version of Metall left.  Paths and kernels are interchangeable. *)
(***************************************************************************)
EXTENDS DataStore, TLC

MCSetups ==
    [paths : {Paths}, kernels : {{k} : k \in Kernels}, foreign : {FALSE}, epochs : {2}]
    \cup [paths : {Paths}, kernels : {Kernels}, foreign : {FALSE}, epochs : {1}]
    \cup [paths : {{p} : p \in Paths}, kernels : {Kernels}, foreign : {TRUE}, epochs : {3}]

OneSetup == [paths : {{p} : p \in Paths}, kernels : {{k} : k \in Kernels},
             foreign : {FALSE}, epochs : {3}]

Symmetry == Permutations(Kernels) \cup Permutations(Paths)
=============================================================================
