------------------------------ MODULE MCRtlStart -----------------------------
(***************************************************************************)
(* The start of the linker, and its calls once it is there: RtlInit ends   *)
(* where RtlLoader begins, and each is explored from its own initial state *)
(* while the other stays in its own.                                       *)
(***************************************************************************)
EXTENDS MCRtlLoader, RtlInit

\* The start may stop: the libio lock is kept when it has failed.
Stopped == ~StartInit /\ UNCHANGED <<vars, startVars>>

BothInit == Init /\ StartInit
BothNext == \/ StartInit /\ Next /\ UNCHANGED startVars
            \/ Init /\ StartNext /\ UNCHANGED vars
            \/ Stopped
BothSpec == BothInit /\ [][BothNext]_<<vars, startVars>>

BothSymmetry == Symmetry \union Permutations(Tasks)
=============================================================================
