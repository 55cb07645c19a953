--------------------------- MODULE MCRtlLoaderLive ---------------------------
(***************************************************************************)
(* RtlLoader with a bound on the calls the clients start between them, so  *)
(* that weak fairness of the steps of a call is enough for liveness: in    *)
(* whatever order the mutex serves its waiters, they are finitely many.    *)
(***************************************************************************)
EXTENDS MCRtlLoader

CONSTANT MaxCalls

VARIABLE calls      \* calls started so far

mcVars == <<vars, calls>>

MCInit == Init /\ calls = 0

MCCall(p) == Call(p) /\ calls < MaxCalls /\ calls' = calls + 1
MCStep(p) == Step(p) /\ UNCHANGED calls

MCNext ==
  \/ Undefined /\ UNCHANGED calls
  \/ \E p \in Procs : MCCall(p) \/ MCStep(p)

MCSpec == MCInit /\ [][MCNext]_mcVars /\ \A p \in Procs : WF_mcVars(MCStep(p))
=============================================================================
