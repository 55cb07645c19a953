-------------------------------- MODULE MCRap --------------------------------
(***************************************************************************)
(* The application loader, the packing and unpacking of blocks and the     *)
(* loading of RAP files: each is explored from its own initial state while *)
(* the others stay in theirs.                                              *)
(***************************************************************************)
EXTENDS MCRapLoader, MCRapFile

\* The application loader may stop: the libio lock is kept when the mutex cannot
\* be made, and a load may keep the mutex.  So may a load whose block overran
\* the decompressor's buffer.
Stopped == ~(Init /\ FileInit) /\ UNCHANGED <<vars, fileVars, lzVars>>

RapInit == Init /\ MCInit
RapNext == \/ MCInit /\ Next /\ UNCHANGED <<fileVars, lzVars>>
           \/ Init /\ MCNext /\ UNCHANGED vars
           \/ Stopped

\* The fairness of RapLoader, which asks for nothing while no call is being made.
RapSpec == /\ RapInit /\ [][RapNext]_<<vars, fileVars, lzVars>>
           /\ \A t \in Tasks : WF_vars(Step(t) /\ UNCHANGED <<fileVars, lzVars>>)
=============================================================================
