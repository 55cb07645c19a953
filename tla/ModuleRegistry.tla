--------------------------- MODULE ModuleRegistry ---------------------------
(***************************************************************************)
(* What dlopen and dlclose promise their clients, without lock, object     *)
(* list, flags or user counts: a module is constructed when its first      *)
(* handle is asked for, is ready as long as somebody holds a handle, and   *)
(* is destructed and removed when the last handle is closed.               *)
(***************************************************************************)
CONSTANTS Procs, Names, None

VARIABLES
  held,    \* held[p]: the module p holds a handle of, or None
  phase    \* phase[n]: where module n is in its life

vars == <<held, phase>>

Phases == {"absent", "constructing", "ready", "destructing"}

TypeOK ==
  /\ held \in [Procs -> Names \union {None}]
  /\ phase \in [Names -> Phases]

Init ==
  /\ held = [p \in Procs |-> None]
  /\ phase = [n \in Names |-> "absent"]

\* The first dlopen of an absent module has loaded it, its ctors start.
Construct(n) ==
  /\ phase[n] = "absent"
  /\ phase' = [phase EXCEPT ![n] = "constructing"]
  /\ UNCHANGED held

\* The constructors have returned and the first handle is handed out.
Constructed(p, n) ==
  /\ phase[n] = "constructing" /\ held[p] = None
  /\ phase' = [phase EXCEPT ![n] = "ready"]
  /\ held' = [held EXCEPT ![p] = n]

\* A later dlopen.
Share(p, n) ==
  /\ phase[n] = "ready" /\ held[p] = None
  /\ held' = [held EXCEPT ![p] = n]
  /\ UNCHANGED phase

\* dlclose by one of several holders.
Drop(p) ==
  /\ \E q \in Procs \ {p} : held[q] = held[p]
  /\ held[p] # None
  /\ held' = [held EXCEPT ![p] = None]
  /\ UNCHANGED phase

\* dlclose by the last holder: the destructors start.
Destruct(p) ==
  /\ held[p] # None
  /\ \A q \in Procs \ {p} : held[q] # held[p]
  /\ held' = [held EXCEPT ![p] = None]
  /\ phase' = [phase EXCEPT ![held[p]] = "destructing"]

\* The destructors have returned and the module is gone.
Removed(n) ==
  /\ phase[n] = "destructing"
  /\ phase' = [phase EXCEPT ![n] = "absent"]
  /\ UNCHANGED held

Next ==
  \/ \E n \in Names : Construct(n) \/ Removed(n)
  \/ \E p \in Procs : Drop(p) \/ Destruct(p)
  \/ \E p \in Procs, n \in Names : Constructed(p, n) \/ Share(p, n)

\* Constructors and destructors return.
Fairness ==
  \A n \in Names : /\ WF_vars(\E p \in Procs : Constructed(p, n))
                   /\ WF_vars(Removed(n))

Safety == Init /\ [][Next]_vars

Spec == Safety /\ Fairness
=============================================================================
