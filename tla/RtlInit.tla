------------------------------ MODULE RtlInit -------------------------------
(***************************************************************************)
(* The start of the linker.  The first call makes its data, the calls that *)
(* arrive meanwhile wait for the libio lock, or find the data half made.   *)
(* Behind it the search path and the base image's symbols are set up and   *)
(* the mutex, which is made and owned by then, is released.                *)
(***************************************************************************)
EXTENDS Integers, SequencesExt

CONSTANTS
  Tasks,
  NoTask,
  HasTable,  \* the program links a table of the base image's symbols
  MaxPaths   \* bound: no more entries in the search path

ASSUME RtlInitAssumption ==
  /\ NoTask \notin Tasks /\ HasTable \in BOOLEAN /\ MaxPaths \in Nat

VARIABLES
  rtl,        \* "null", "raw" (not cleared yet), "live", "freed"
  id,         \* rtl->lock is set
  holder,     \* the owner of the mutex, or NoTask
  depth,      \* how often it holds it
  libio,      \* the owner of the libio lock, or NoTask
  stuck,      \* the task that returned without releasing it, or NoTask
  opened,     \* the parts of the data that are open
  paths,      \* rtl->paths
  based,      \* what has become of the base image's symbols: "untried", "none",
              \* "failed" or "entered" in the global table
  place,      \* place[t]: where task t is
  op,         \* op[t]: what it calls the linker for
  undefined   \* TRUE once memory was used that is raw or freed

mutexVars == <<id, holder, depth>>
startVars == <<rtl, mutexVars, libio, stuck, opened, paths, based, place, op, undefined>>

\* What rtems_rtl_data_init opens, in this order.
Order == <<"globals", "unresolved", "symbols", "strings", "relocs", "decomp", "base">>
Parts == Range(Order)

MovesTo(t, p) == place' = [place EXCEPT ![t] = p]

StartInit ==
  /\ rtl = "null" /\ id = FALSE
  /\ holder = NoTask /\ depth = 0 /\ libio = NoTask /\ stuck = NoTask
  /\ opened = {} /\ paths = <<>> /\ based = "untried"
  /\ place = [t \in Tasks |-> "idle"] /\ op = [t \in Tasks |-> "use"]
  /\ undefined = FALSE

-----------------------------------------------------------------------------
(* The mutex. *)

\* rtems_semaphore_obtain.
Obtain(t)  == holder \in {NoTask, t} /\ holder' = t /\ depth' = depth + 1

\* rtems_semaphore_release: refused when it is not ours.
Release(t) ==
  /\ depth'  = IF holder = t THEN depth - 1 ELSE depth
  /\ holder' = IF holder = t /\ depth = 1 THEN NoTask ELSE holder

\* A call that takes the mutex and gives it back, as rtems_rtl_path_append and
\* rtems_rtl_base_sym_global_add do.
Bracket(t) == holder \in {NoTask, t} /\ UNCHANGED mutexVars

-----------------------------------------------------------------------------
(* rtems_rtl_lock: dlopen and its like, or an update of the search path. *)

FirstCall(t, o) ==
  /\ place[t] = "idle" /\ ~undefined
  /\ op' = [op EXCEPT ![t] = o]
  /\ MovesTo(t, IF rtl = "null" THEN "libio" ELSE "obtain")
  /\ UNCHANGED <<rtl, id, holder, depth, libio, stuck, opened, paths, based, undefined>>

\* The mutex of data that is not ready: of cleared data it is 0, which is no
\* mutex, and the call fails.
NoMutex(t) ==
  /\ place[t] = "obtain" /\ rtl = "live" /\ ~id
  /\ MovesTo(t, "idle")
  /\ UNCHANGED <<rtl, id, holder, depth, libio, stuck, opened, paths, based, op, undefined>>

RawMutex(t) ==
  /\ place[t] = "obtain" /\ rtl \in {"raw", "freed"}
  /\ undefined' = TRUE
  /\ UNCHANGED <<rtl, id, holder, depth, libio, stuck, opened, paths, based, place, op>>

Enter(t) ==
  /\ place[t] = "obtain" /\ rtl = "live" /\ id
  /\ Obtain(t)
  /\ MovesTo(t, "inside")
  /\ UNCHANGED <<rtl, id, libio, stuck, opened, paths, based, op, undefined>>

\* rtems_rtl_path_update; there may be no memory for the new path.
Paths(o) ==
  {paths} \union CASE o = "append"  -> {Append(paths, "user")}
                   [] o = "prepend" -> {<<"user">> \o paths}
                   [] OTHER         -> {}

Leave(t) ==
  /\ place[t] = "inside"
  /\ paths' \in {p \in Paths(op[t]) : Len(p) <= MaxPaths}
  /\ Release(t)
  /\ MovesTo(t, "idle")
  /\ UNCHANGED <<rtl, id, libio, stuck, opened, based, op, undefined>>

-----------------------------------------------------------------------------
(* rtems_rtl_data_init. *)

LibioLock(t) ==
  /\ place[t] = "libio"
  /\ libio \in {NoTask, t} /\ libio' = t
  /\ MovesTo(t, IF rtl = "null" THEN "malloc" ELSE "libiounlock")
  /\ UNCHANGED <<rtl, id, holder, depth, stuck, opened, paths, based, op, undefined>>

\* The data is reachable from here on.
Malloc(t) ==
  /\ place[t] = "malloc"
  /\ \/ rtl' = "raw" /\ MovesTo(t, "clear")
     \/ UNCHANGED rtl /\ MovesTo(t, "false")
  /\ UNCHANGED <<id, holder, depth, libio, stuck, opened, paths, based, op, undefined>>

Clear(t) ==
  /\ place[t] = "clear"
  /\ rtl' = "live" /\ MovesTo(t, "create")
  /\ UNCHANGED <<id, holder, depth, libio, stuck, opened, paths, based, op, undefined>>

\* Mutant of Create: the mutex is there for everybody at once.
CreateFree(t) ==
  /\ place[t] = "create"
  /\ \/ id' = TRUE /\ MovesTo(t, "open") /\ UNCHANGED <<rtl, holder, depth>>
     \/ rtl' = "freed" /\ MovesTo(t, "false") /\ UNCHANGED mutexVars
  /\ UNCHANGED <<libio, stuck, opened, paths, based, op, undefined>>

\* The mutex is created and obtained before rtl->lock is set.
Create(t) ==
  /\ place[t] = "create"
  /\ \/ id' = TRUE /\ Obtain(t) /\ MovesTo(t, "open") /\ UNCHANGED rtl
     \/ rtl' = "freed" /\ MovesTo(t, "false") /\ UNCHANGED mutexVars
  /\ UNCHANGED <<libio, stuck, opened, paths, based, op, undefined>>

NextPart == Order[Cardinality(opened) + 1]

Open(t) ==
  /\ place[t] = "open"
  /\ IF opened = Parts
       THEN MovesTo(t, "libiounlock") /\ UNCHANGED opened
       ELSE opened' = opened \union {NextPart} /\ UNCHANGED place
  /\ UNCHANGED <<rtl, id, holder, depth, libio, stuck, paths, based, op, undefined>>

\* Mutant of Closed: the oldest part is forgotten.
ClosedButFirst == opened \intersect {Order[1]}

\* What is left open by the error path of the next part.
Closed == opened \ {Order[i] : i \in 1 .. Cardinality(opened)}

\* rtl stays set.  The mutex is in use and cannot be deleted, and the libio
\* lock is not released.  rtems_rtl_unresolved_table_open never fails.
OpenFails(t) ==
  /\ place[t] = "open" /\ opened # Parts /\ NextPart # "unresolved"
  /\ opened' = Closed
  /\ rtl' = "freed"
  /\ MovesTo(t, "false")
  /\ UNCHANGED <<id, holder, depth, libio, stuck, paths, based, op, undefined>>

\* The call returns with nothing, and with the libio lock.
Fails(t) ==
  /\ place[t] = "false"
  /\ stuck' = t
  /\ MovesTo(t, "idle")
  /\ UNCHANGED <<rtl, id, holder, depth, libio, opened, paths, based, op, undefined>>

\* From here on the task that made the data, and those that came second: they
\* do all of it again.  A task that kept the libio lock keeps it.
LibioUnlock(t) ==
  /\ place[t] = "libiounlock"
  /\ libio' = stuck /\ MovesTo(t, "path")
  /\ UNCHANGED <<rtl, id, holder, depth, stuck, opened, paths, based, op, undefined>>

AppendDot(t) ==
  /\ place[t] = "path"
  /\ Bracket(t)
  /\ paths' \in {p \in {paths, Append(paths, ".")} : Len(p) <= MaxPaths}
  /\ MovesTo(t, "base")
  /\ UNCHANGED <<rtl, libio, stuck, opened, based, op, undefined>>

\* rtems_rtl_base_sym_global_add: the table may be invalid, or there is no memory for
\* it, which nobody is told; what is entered already stays.
AddBase(t) ==
  /\ place[t] = "base"
  /\ Bracket(t)
  /\ based' \in IF HasTable THEN {"entered", IF based = "entered" THEN based ELSE "failed"}
                            ELSE {"none"}
  /\ MovesTo(t, "release")
  /\ UNCHANGED <<rtl, libio, stuck, opened, paths, op, undefined>>

Started(t) ==
  /\ place[t] = "release"
  /\ Release(t)
  /\ MovesTo(t, "obtain")
  /\ UNCHANGED <<rtl, id, libio, stuck, opened, paths, based, op, undefined>>

StartStep(t) ==
  /\ ~undefined
  /\ \/ NoMutex(t) \/ RawMutex(t) \/ Enter(t) \/ Leave(t)
     \/ LibioLock(t) \/ Malloc(t) \/ Clear(t) \/ Create(t) \/ Open(t) \/ OpenFails(t)
     \/ Fails(t) \/ LibioUnlock(t) \/ AppendDot(t) \/ AddBase(t) \/ Started(t)

StartNext ==
  \E t \in Tasks : StartStep(t) \/ \E o \in {"use", "append", "prepend"} : FirstCall(t, o)

StartSpec == StartInit /\ [][StartNext]_startVars

-----------------------------------------------------------------------------
\* ReadyWhenEntered: whoever gets the mutex of the linker, the data is whole, no
\* task makes it still, and the base image's symbols have been dealt with: they are
\* in the table, or rtems_rtl_symbol_global_add failed for a call that is over, whose
\* result rtl.c:610 ignores.  A call that is too early fails, or waits, and never sees
\* a linker that is half made (rtems_rtl_data_init against rtems_rtl_lock).
ReadyWhenEntered ==
  \A t \in Tasks : place[t] = "inside" =>
    /\ holder = t
    /\ rtl = "live" /\ opened = Parts
    /\ based \in IF HasTable THEN {"entered", "failed"} ELSE {"none"}
    /\ \A u \in Tasks : place[u] \notin {"malloc", "clear", "create", "open"}

\* FailureCloses: when a step of the initialisation fails, whatever had been
\* opened in front of it has been closed before the data is freed (seven error
\* paths that grow by a line each).  That is all they do: rtl stays set and the
\* libio lock is kept, so that the initialisation cannot be repeated.
FailureCloses == rtl = "freed" => opened = {}
=============================================================================
