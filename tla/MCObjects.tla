------------------------------ MODULE MCObjects ------------------------------
(***************************************************************************)
(* What a program holds of a store, for TLC: named objects, managers with  *)
(* their allocators, and the C interface.  They do not share state, so a   *)
(* behaviour is one of one part, chosen initially; managers are used by    *)
(* threads or by containers.                                               *)
(***************************************************************************)
EXTENDS NamedObjects, Manager, CApi

VARIABLE part

AllInit ==
    /\ part \in {"objects", "managers", "allocators", "c"}
    /\ Init /\ ManagerInit /\ CInit

NextObjects == part = "objects" /\ Next /\ UNCHANGED <<part, managerVars, cVars>>
NextManagers ==
    /\ part = "managers" /\ ManagerNext /\ UNCHANGED <<m_alloc, source, holder>>
    /\ UNCHANGED <<part, vars, cVars>>
NextAllocators ==
    /\ part = "allocators" /\ ManagerNext /\ UNCHANGED inside
    /\ UNCHANGED <<part, vars, cVars>>
NextC == part = "c" /\ CNext /\ UNCHANGED <<part, vars, managerVars>>

AllNext == NextObjects \/ NextManagers \/ NextAllocators \/ NextC

AllSpec == AllInit /\ [][AllNext]_<<part, vars, managerVars, cVars>>
=============================================================================
