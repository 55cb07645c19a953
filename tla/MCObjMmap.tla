------------------------------ MODULE MCObjMmap ------------------------------
(***************************************************************************)
(* The object module loader and mmap, which do not meet: each is explored  *)
(* from its own initial state while the other stays in its own.            *)
(***************************************************************************)
EXTENDS MCObjLoad, Mmap

\* The calls of mmap may stop for ever: the chain may be broken.
Stopped == ~MmapInit /\ UNCHANGED <<vars, mmapVars>>

BothInit == Init /\ MmapInit
BothNext == \/ MmapInit /\ Next /\ UNCHANGED mmapVars
            \/ Init /\ MmapNext /\ UNCHANGED vars
            \/ Stopped

\* The fairness of Mmap, which asks for nothing while no call is being made.
BothSpec == /\ BothInit /\ [][BothNext]_<<vars, mmapVars>>
            /\ \A t \in Tasks : /\ WF_mmapVars(~broken /\ Step(t) /\ UNCHANGED vars)
                                /\ SF_mmapVars(~broken /\ Obtain(t) /\ UNCHANGED vars)
=============================================================================
